---- MODULE Spec2Model ----
(***************************************************************************)
(* Model of the fastpaze routing / dispatch / template / middleware engine *)
(* (fastpaze/libfastpaze.go).  Strings of the program are sequences of     *)
(* one-character strings, so that concatenation, substitution, pattern     *)
(* matching and JSON parsing are computed, not assumed.                    *)
(***************************************************************************)
EXTENDS Integers, Sequences, FiniteSets, TLC

(***************************************************************************)
(* Generic helpers on sequences                                            *)
(***************************************************************************)
Range(s) == {s[i] : i \in DOMAIN s}

Max(S) == CHOOSE x \in S : \A y \in S : y <= x

\* the empty Go map[string]string
EmptyMap == << >>

\* m[k] = v on a Go map modelled as a function
MapPut(m, k, v) == [x \in (DOMAIN m) \cup {k} |-> IF x = k THEN v ELSE m[x]]

\* all orders in which the elements of a finite set can be visited
\* (Go's map iteration order is unspecified)
Orders(S) == {o \in [1..Cardinality(S) -> S] : \A i, j \in DOMAIN o : i # j => o[i] # o[j]}

(***************************************************************************)
(* Path Pattern Compiler: pathToRegex                                      *)
(***************************************************************************)
GroupTok == "GROUP"   \* the capture group ([^/]+)
AnyTok == "ANY"       \* the regex metacharacter .
NilRegex == <<"NIL">> \* PathRegex == nil (regexp.Compile failed)

IsBrace(c) == c = "{" \/ c = "}"

\* position of the "}" closing a placeholder \{([^{}]+)\} that starts at i,
\* or 0 when no placeholder starts at i
PlaceholderEnd(path, i) ==
  IF i > Len(path) \/ path[i] # "{" THEN 0
  ELSE LET ends == {j \in (i + 2)..Len(path) :
                      /\ path[j] = "}"
                      /\ \A k \in (i + 1)..(j - 1) : ~IsBrace(path[k])}
       IN IF ends = {} THEN 0 ELSE CHOOSE j \in ends : \A k \in ends : j <= k

\* paramPattern.FindAllStringSubmatch: the names, left to right
RECURSIVE ParamNamesFrom(_, _)
ParamNamesFrom(path, i) ==
  IF i > Len(path) THEN <<>>
  ELSE LET e == PlaceholderEnd(path, i)
       IN IF e = 0 THEN ParamNamesFrom(path, i + 1)
          ELSE <<SubSeq(path, i + 1, e - 1)>> \o ParamNamesFrom(path, e + 1)

\* paramPattern.ReplaceAllString(path, `([^/]+)`): the pattern text, one
\* element per character left in place and GroupTok per replaced placeholder
RECURSIVE ReplacePlaceholders(_, _)
ReplacePlaceholders(path, i) ==
  IF i > Len(path) THEN <<>>
  ELSE LET e == PlaceholderEnd(path, i)
       IN IF e = 0 THEN <<path[i]>> \o ReplacePlaceholders(path, i + 1)
          ELSE <<GroupTok>> \o ReplacePlaceholders(path, e + 1)

\* regexp.Compile on the characters this model uses: "(" without ")" is a
\* syntax error, "." is a metacharacter, a brace that is not a repetition
\* and every other character is a literal
CompileFails(pattern) == \E i \in DOMAIN pattern : pattern[i] = "("

CompilePattern(pattern) ==
  [i \in DOMAIN pattern |-> IF pattern[i] = "." THEN AnyTok ELSE pattern[i]]

pathToRegex(path) ==
  LET pattern == ReplacePlaceholders(path, 1)
  IN [regex |-> IF CompileFails(pattern) THEN NilRegex ELSE CompilePattern(pattern),
      paramNames |-> ParamNamesFrom(path, 1)]

(***************************************************************************)
(* regexp matching of ^pattern$ with leftmost-first (greedy) semantics      *)
(***************************************************************************)
NoMatch == [ok |-> FALSE, caps |-> <<>>]

\* longest run of characters other than "/" starting at si
RECURSIVE MaxRun(_, _)
MaxRun(s, si) ==
  IF si > Len(s) \/ s[si] = "/" THEN 0 ELSE 1 + MaxRun(s, si + 1)

RECURSIVE MatchFrom(_, _, _, _)
RECURSIVE MatchGroup(_, _, _, _, _)
MatchFrom(toks, ti, s, si) ==
  IF ti > Len(toks) THEN [ok |-> si > Len(s), caps |-> <<>>]
  ELSE IF toks[ti] = GroupTok THEN MatchGroup(toks, ti, s, si, MaxRun(s, si))
  ELSE IF si <= Len(s) /\ (toks[ti] = AnyTok \/ toks[ti] = s[si])
       THEN MatchFrom(toks, ti + 1, s, si + 1)
  ELSE NoMatch

\* ([^/]+) is greedy: the longest capture for which the rest still matches
MatchGroup(toks, ti, s, si, n) ==
  IF n < 1 THEN NoMatch
  ELSE LET r == MatchFrom(toks, ti + 1, s, si + n)
       IN IF r.ok THEN [ok |-> TRUE, caps |-> <<SubSeq(s, si, si + n - 1)>> \o r.caps]
          ELSE MatchGroup(toks, ti, s, si, n - 1)

\* PathRegex.FindStringSubmatch(path): nil, or <<whole match, capture 1, ...>>
FindStringSubmatch(regex, path) ==
  LET r == MatchFrom(regex, 1, path, 1)
  IN IF r.ok THEN <<path>> \o r.caps ELSE <<>>

\* PathRegex.MatchString(path)
MatchString(regex, path) == MatchFrom(regex, 1, path, 1).ok

(***************************************************************************)
(* encoding/json on the characters this model uses.  Texts contain no      *)
(* \u, \b, \f escape, and numbers without leading or trailing zeros or    *)
(* exponent, which are formatted back as their own lexeme.                *)
(***************************************************************************)
QUOTE == "\""
BACKSLASH == "\\"

Digits == {"0", "1", "2", "3", "4", "5", "6", "7", "8", "9"}

\* the characters of the model's texts in byte order (sort.Strings of keys)
Ascii == <<"\t", "\n", "\r", " ", "!", QUOTE, "(", ")", ",", "-", ".", "/",
           "0", "1", "2", "3", "4", "5", "6", "7", "8", "9", ":", "A", "B",
           "C", "D", "E", "F", "G", "H", "I", "J", "K", "L", "M", "N", "O",
           "P", "Q", "R", "S", "T", "U", "V", "W", "X", "Y", "Z", "[",
           BACKSLASH, "]", "_", "a", "b", "c", "d", "e", "f", "g", "h", "i",
           "j", "k", "l", "m", "n", "o", "p", "q", "r", "s", "t", "u", "v",
           "w", "x", "y", "z", "{", "}">>

Code(c) == CHOOSE i \in DOMAIN Ascii : Ascii[i] = c

RECURSIVE LessStr(_, _)
LessStr(a, b) ==
  IF a = <<>> THEN b # <<>>
  ELSE IF b = <<>> THEN FALSE
  ELSE IF a[1] = b[1] THEN LessStr(Tail(a), Tail(b))
  ELSE Code(a[1]) < Code(b[1])

RECURSIVE SortKeys(_)
SortKeys(S) ==
  IF S = {} THEN <<>>
  ELSE LET m == CHOOSE x \in S : \A y \in S \ {x} : LessStr(x, y)
       IN <<m>> \o SortKeys(S \ {m})

\* decoded JSON values: [k |-> kind, v |-> payload]
StrVal(s) == [k |-> "str", v |-> s]
NumVal(lex) == [k |-> "num", v |-> lex]
LitVal(lex) == [k |-> "lit", v |-> lex]
ArrVal(a) == [k |-> "arr", v |-> a]
ObjVal(m) == [k |-> "obj", v |-> m]
NullVal == LitVal(<<"n", "u", "l", "l">>)

ParseFail == [ok |-> FALSE, val |-> NullVal, next |-> 0]

RECURSIVE SkipWS(_, _)
SkipWS(s, i) ==
  IF i <= Len(s) /\ s[i] \in {" ", "\t", "\n", "\r"} THEN SkipWS(s, i + 1) ELSE i

HasAt(s, i, w) == i + Len(w) - 1 <= Len(s) /\ SubSeq(s, i, i + Len(w) - 1) = w

\* the characters a backslash escape stands for
Unescape(c) ==
  CASE c = "n" -> "\n"  [] c = "t" -> "\t"  [] c = "r" -> "\r"  [] OTHER -> c

\* a string literal whose opening quote is at j - 1
RECURSIVE ScanString(_, _, _)
ScanString(s, j, acc) ==
  IF j > Len(s) THEN ParseFail
  ELSE IF s[j] = QUOTE THEN [ok |-> TRUE, val |-> StrVal(acc), next |-> j + 1]
  ELSE IF s[j] = BACKSLASH
       THEN IF j + 1 <= Len(s) /\ s[j + 1] \in {QUOTE, BACKSLASH, "/", "n", "t", "r"}
            THEN ScanString(s, j + 2, Append(acc, Unescape(s[j + 1])))
            ELSE ParseFail
  ELSE IF s[j] \in {"\t", "\n", "\r"} THEN ParseFail
  ELSE ScanString(s, j + 1, Append(acc, s[j]))

RECURSIVE DigitsEnd(_, _)
DigitsEnd(s, i) ==
  IF i <= Len(s) /\ s[i] \in Digits THEN DigitsEnd(s, i + 1) ELSE i

\* the end of a digit run that started at from, 0 when the run is empty
AtLeastOne(e, from) == IF e > from THEN e ELSE 0

\* 0|[1-9][0-9]* at a: the index after it, a itself when there is no digit
IntEnd(s, a) == IF a <= Len(s) /\ s[a] = "0" THEN a + 1 ELSE DigitsEnd(s, a)

\* (\.[0-9]+)? at n
FracEnd(s, n) ==
  IF n <= Len(s) /\ s[n] = "." THEN AtLeastOne(DigitsEnd(s, n + 1), n + 1) ELSE n

\* where the digits of an exponent whose letter is at f start
ExpDigitsAt(s, f) ==
  IF f + 1 <= Len(s) /\ s[f + 1] \in {"+", "-"} THEN f + 2 ELSE f + 1

\* ([eE][+-]?[0-9]+)? at f; f = 0 is a failure before it
ExpEnd(s, f) ==
  IF f > 0 /\ f <= Len(s) /\ s[f] \in {"e", "E"}
  THEN AtLeastOne(DigitsEnd(s, ExpDigitsAt(s, f)), ExpDigitsAt(s, f))
  ELSE f

\* the index after the number whose first digit should be at a, 0 on failure
NumberEnd(s, a) ==
  IF IntEnd(s, a) = a THEN 0 ELSE ExpEnd(s, FracEnd(s, IntEnd(s, a)))

NumberFrom(s, i, e) ==
  IF e = 0 THEN ParseFail
  ELSE [ok |-> TRUE, val |-> NumVal(SubSeq(s, i, e - 1)), next |-> e]

\* -?(0|[1-9][0-9]*)(\.[0-9]+)?([eE][+-]?[0-9]+)?
ScanNumber(s, i) ==
  NumberFrom(s, i, NumberEnd(s, IF i <= Len(s) /\ s[i] = "-" THEN i + 1 ELSE i))

ScanLiteral(s, i, w) ==
  IF HasAt(s, i, w) THEN [ok |-> TRUE, val |-> LitVal(w), next |-> i + Len(w)]
  ELSE ParseFail

RECURSIVE ParseValue(_, _)
RECURSIVE ParseMembers(_, _, _)
RECURSIVE ParseElements(_, _, _)

\* after a member at e: the closing brace or a comma and the next member
MemberNext(s, e, acc) ==
  IF e > Len(s) THEN ParseFail
  ELSE IF s[e] = "}" THEN [ok |-> TRUE, val |-> ObjVal(acc), next |-> e + 1]
  ELSE IF s[e] = "," THEN ParseMembers(s, SkipWS(s, e + 1), acc)
  ELSE ParseFail

\* a member's decoded value val stored under name; a repeated key keeps the
\* value decoded last
MemberEnd(s, name, val, acc) ==
  IF ~val.ok THEN ParseFail
  ELSE MemberNext(s, SkipWS(s, val.next), MapPut(acc, name, val.val))

\* after the scanned key: the colon and the member's value
MemberValue(s, key, acc) ==
  IF key.ok /\ SkipWS(s, key.next) <= Len(s) /\ s[SkipWS(s, key.next)] = ":"
  THEN MemberEnd(s, key.val.v, ParseValue(s, SkipWS(s, SkipWS(s, key.next) + 1)), acc)
  ELSE ParseFail

\* "key" : value { , "key" : value } "}" with i at the first key
ParseMembers(s, i, acc) ==
  IF i > Len(s) \/ s[i] # QUOTE THEN ParseFail
  ELSE MemberValue(s, ScanString(s, i + 1, <<>>), acc)

\* after an element at e: the closing bracket or a comma and the next element
ElementNext(s, e, acc) ==
  IF e > Len(s) THEN ParseFail
  ELSE IF s[e] = "]" THEN [ok |-> TRUE, val |-> ArrVal(acc), next |-> e + 1]
  ELSE IF s[e] = "," THEN ParseElements(s, SkipWS(s, e + 1), acc)
  ELSE ParseFail

ElementEnd(s, val, acc) ==
  IF ~val.ok THEN ParseFail
  ELSE ElementNext(s, SkipWS(s, val.next), Append(acc, val.val))

\* value { , value } "]" with i at the first value
ParseElements(s, i, acc) == ElementEnd(s, ParseValue(s, i), acc)

\* after "{" with j at the first character that is not white space
ParseObject(s, j) ==
  IF j <= Len(s) /\ s[j] = "}"
  THEN [ok |-> TRUE, val |-> ObjVal(EmptyMap), next |-> j + 1]
  ELSE ParseMembers(s, j, EmptyMap)

\* after "[" with j at the first character that is not white space
ParseArray(s, j) ==
  IF j <= Len(s) /\ s[j] = "]"
  THEN [ok |-> TRUE, val |-> ArrVal(<<>>), next |-> j + 1]
  ELSE ParseElements(s, j, <<>>)

\* one JSON value starting at i (leading white space skipped by the caller)
ParseValue(s, i) ==
  IF i > Len(s) THEN ParseFail
  ELSE IF s[i] = "{" THEN ParseObject(s, SkipWS(s, i + 1))
  ELSE IF s[i] = "[" THEN ParseArray(s, SkipWS(s, i + 1))
  ELSE IF s[i] = QUOTE THEN ScanString(s, i + 1, <<>>)
  ELSE IF s[i] = "t" THEN ScanLiteral(s, i, <<"t", "r", "u", "e">>)
  ELSE IF s[i] = "f" THEN ScanLiteral(s, i, <<"f", "a", "l", "s", "e">>)
  ELSE IF s[i] = "n" THEN ScanLiteral(s, i, <<"n", "u", "l", "l">>)
  ELSE IF s[i] = "-" \/ s[i] \in Digits THEN ScanNumber(s, i)
  ELSE ParseFail

\* the text after the value r is white space only
WholeText(s, r) == IF r.ok /\ SkipWS(s, r.next) > Len(s) THEN r ELSE ParseFail

\* the whole text is one JSON value (json.Valid)
ParseJSON(s) == WholeText(s, ParseValue(s, SkipWS(s, 1)))

ValidJSON(s) == ParseJSON(s).ok

\* json.Unmarshal(text, &m) with m a map[string]interface{}: a syntax error
\* and a JSON value that is neither an object nor null are both errors;
\* null leaves m nil without an error
IntoMap(r) ==
  IF r.ok /\ (r.val.k = "obj" \/ r.val = NullVal)
  THEN [err |-> FALSE, val |-> r.val]
  ELSE [err |-> TRUE, val |-> NullVal]

UnmarshalMap(s) == IntoMap(ParseJSON(s))

RECURSIVE EscapeString(_)
EscapeString(s) ==
  IF s = <<>> THEN <<>>
  ELSE (CASE s[1] = QUOTE -> <<BACKSLASH, QUOTE>>
          [] s[1] = BACKSLASH -> <<BACKSLASH, BACKSLASH>>
          [] s[1] = "\n" -> <<BACKSLASH, "n">>
          [] s[1] = "\t" -> <<BACKSLASH, "t">>
          [] s[1] = "\r" -> <<BACKSLASH, "r">>
          [] OTHER -> <<s[1]>>) \o EscapeString(Tail(s))

RECURSIVE Marshal(_)
RECURSIVE MarshalElements(_, _)
RECURSIVE MarshalMembers(_, _, _)
\* json.Marshal: object keys sorted, no white space
Marshal(val) ==
  CASE val.k = "str" -> <<QUOTE>> \o EscapeString(val.v) \o <<QUOTE>>
    [] val.k = "num" -> val.v
    [] val.k = "lit" -> val.v
    [] val.k = "arr" -> <<"[">> \o MarshalElements(val.v, 1) \o <<"]">>
    [] val.k = "obj" -> <<"{">> \o MarshalMembers(val.v, SortKeys(DOMAIN val.v), 1) \o <<"}">>

MarshalElements(a, i) ==
  IF i > Len(a) THEN <<>>
  ELSE (IF i > 1 THEN <<",">> ELSE <<>>) \o Marshal(a[i]) \o MarshalElements(a, i + 1)

MarshalMembers(m, keys, i) ==
  IF i > Len(keys) THEN <<>>
  ELSE (IF i > 1 THEN <<",">> ELSE <<>>)
       \o <<QUOTE>> \o EscapeString(keys[i]) \o <<QUOTE, ":">> \o Marshal(m[keys[i]])
       \o MarshalMembers(m, keys, i + 1)

(***************************************************************************)
(* Template Engine: processMessageTemplate, processJSONFields              *)
(***************************************************************************)
Placeholder(name) == <<"{">> \o name \o <<"}">>

\* strings.Contains
Contains(s, sub) == \E i \in 1..(Len(s) + 1) : HasAt(s, i, sub)

\* strings.ReplaceAll for a non-empty old: non-overlapping, left to right
RECURSIVE ReplaceFrom(_, _, _, _)
ReplaceFrom(s, i, old, new) ==
  IF i > Len(s) THEN <<>>
  ELSE IF HasAt(s, i, old) THEN new \o ReplaceFrom(s, i + Len(old), old, new)
  ELSE <<s[i]>> \o ReplaceFrom(s, i + 1, old, new)

ReplaceAll(s, old, new) == ReplaceFrom(s, 1, old, new)

\* the loop over pathParams on one string value v: every iteration replaces
\* in the original v and stores the result, so the stored string is the one
\* of the parameter visited last among those whose placeholder v contains;
\* the visiting order of a Go map is unspecified, hence a set of outcomes
ReplaceInString(v, pathParams) ==
  LET hits == {name \in DOMAIN pathParams : Contains(v, Placeholder(name))}
  IN IF hits = {} THEN {v}
     ELSE {ReplaceAll(v, Placeholder(name), pathParams[name]) : name \in hits}

RECURSIVE processJSONFields(_, _)
RECURSIVE ProcessFieldsOf(_, _, _)
RECURSIVE ProcessField(_, _)
RECURSIVE ProcessItems(_, _, _)

\* the possible contents of the map data after processJSONFields
processJSONFields(data, pathParams) == ProcessFieldsOf(data, DOMAIN data, pathParams)

ProcessFieldsOf(data, keys, pathParams) ==
  IF keys = {} THEN {EmptyMap}
  ELSE LET key == CHOOSE x \in keys : TRUE
       IN {MapPut(rest, key, val) :
             rest \in ProcessFieldsOf(data, keys \ {key}, pathParams),
             val \in ProcessField(data[key], pathParams)}

\* the switch on the type of one field value
ProcessField(value, pathParams) ==
  CASE value.k = "str" -> {StrVal(x) : x \in ReplaceInString(value.v, pathParams)}
    [] value.k = "obj" -> {ObjVal(m) : m \in processJSONFields(value.v, pathParams)}
    [] value.k = "arr" -> {ArrVal(a) : a \in ProcessItems(value.v, 1, pathParams)}
    [] OTHER -> {value}

\* the loop over the items of an array: objects and strings only
ProcessItems(a, i, pathParams) ==
  IF i > Len(a) THEN {<<>>}
  ELSE LET item == a[i]
           opts == CASE item.k = "obj" ->
                          {ObjVal(m) : m \in processJSONFields(item.v, pathParams)}
                     [] item.k = "str" ->
                          {StrVal(x) : x \in ReplaceInString(item.v, pathParams)}
                     [] OTHER -> {item}
       IN {<<o>> \o rest : o \in opts, rest \in ProcessItems(a, i + 1, pathParams)}

\* the plain-string fallback: one ReplaceAll per parameter on the running
\* result, in the order order
RECURSIVE ReplaceInOrder(_, _, _, _)
ReplaceInOrder(result, order, i, pathParams) ==
  IF i > Len(order) THEN result
  ELSE ReplaceInOrder(ReplaceAll(result, Placeholder(order[i]), pathParams[order[i]]),
                      order, i + 1, pathParams)

\* the texts processMessageTemplate can return
processMessageTemplate(message, pathParams) ==
  LET u == UnmarshalMap(message)
  IN IF ~u.err
     THEN IF u.val = NullVal THEN {Marshal(NullVal)}
          ELSE {Marshal(ObjVal(m)) : m \in processJSONFields(u.val.v, pathParams)}
     ELSE {ReplaceInOrder(message, order, 1, pathParams) :
             order \in Orders(DOMAIN pathParams)}

(***************************************************************************)
(* Program constants and texts                                             *)
(***************************************************************************)
maxReqs == 100     \* requests per window and client
windowSize == 60   \* seconds

\* a handler that leaves the status code of the response as it is
KeepStatus == 0

StatusOK == 200
StatusNoContent == 204
StatusBadRequest == 400
StatusNotFound == 404
StatusTooManyRequests == 429

GET == <<"G", "E", "T">>
POST == <<"P", "O", "S", "T">>
OPTIONS == <<"O", "P", "T", "I", "O", "N", "S">>

ContentTypeKey == <<"C", "o", "n", "t", "e", "n", "t", "-", "T", "y", "p", "e">>
ApplicationJSON == <<"a", "p", "p", "l", "i", "c", "a", "t", "i", "o", "n", "/", "j", "s", "o", "n">>
HeaderPrefix == <<"h", "e", "a", "d", "e", "r", ":">>
OpenAPIPath == <<"/", "o", "p", "e", "n", "a", "p", "i", ".", "j", "s", "o", "n">>
SwaggerPrefix == <<"/", "s", "w", "a", "g", "g", "e", "r">>
RouteNotFoundFor == <<"R", "o", "u", "t", "e", " ", "n", "o", "t", " ", "f", "o", "u", "n", "d", " ", "f", "o", "r", " ">>
TryUsingMethod == <<" ", "-", " ", "T", "r", "y", " ", "u", "s", "i", "n", "g", " ", "m", "e", "t", "h", "o", "d", " ">>
OrSep == <<" ", "o", "r", " ">>
InvalidJSONBody == <<"I", "n", "v", "a", "l", "i", "d", " ", "J", "S", "O", "N", " ", "b", "o", "d", "y">>

Lowers == <<"a", "b", "c", "d", "e", "f", "g", "h", "i", "j", "k", "l", "m",
            "n", "o", "p", "q", "r", "s", "t", "u", "v", "w", "x", "y", "z">>
Uppers == <<"A", "B", "C", "D", "E", "F", "G", "H", "I", "J", "K", "L", "M",
            "N", "O", "P", "Q", "R", "S", "T", "U", "V", "W", "X", "Y", "Z">>

\* strings.ToUpper / strings.ToLower
ToUpper(s) ==
  [i \in DOMAIN s |-> IF \E j \in DOMAIN Lowers : Lowers[j] = s[i]
                      THEN Uppers[CHOOSE j \in DOMAIN Lowers : Lowers[j] = s[i]]
                      ELSE s[i]]

ToLower(s) ==
  [i \in DOMAIN s |-> IF \E j \in DOMAIN Uppers : Uppers[j] = s[i]
                      THEN Lowers[CHOOSE j \in DOMAIN Uppers : Uppers[j] = s[i]]
                      ELSE s[i]]

\* strings.Join
RECURSIVE Join(_, _)
Join(elems, sep) ==
  IF elems = <<>> THEN <<>>
  ELSE IF Len(elems) = 1 THEN elems[1]
  ELSE elems[1] \o sep \o Join(Tail(elems), sep)

\* strings.HasPrefix
HasPrefix(s, prefix) == HasAt(s, 1, prefix)

(***************************************************************************)
(* 64-bit words: uintptr, int, int64 and time.Duration values as their     *)
(* eight bytes, least significant first                                    *)
(***************************************************************************)
WordBytes == 8

RECURSIVE WordFrom(_, _)
WordFrom(n, i) ==
  IF i > WordBytes THEN <<>> ELSE <<n % 256>> \o WordFrom(n \div 256, i + 1)

\* the word of a number below 2^31
Word(n) == WordFrom(n, 1)

ZeroWord == Word(0)

\* int64(w) > 0 and int(w) > 0: the sign bit is clear and some bit is set
IsPositive(w) == w[WordBytes] < 128 /\ w # ZeroWord

\* w * k in 64 bits, the bits above them dropped
RECURSIVE MulFrom(_, _, _, _)
MulFrom(w, k, i, carry) ==
  IF i > WordBytes THEN <<>>
  ELSE <<(w[i] * k + carry) % 256>> \o MulFrom(w, k, i + 1, (w[i] * k + carry) \div 256)

MulWord(w, k) == MulFrom(w, k, 1, 0)

\* time.Millisecond, in nanoseconds
Millisecond == 1000000

\* time.Duration(ms) * time.Millisecond
Milliseconds(ms) == MulWord(ms, Millisecond)

\* :8080
DefaultPort == <<":", "8", "0", "8", "0">>

\* the serverConfig the package starts with
DefaultServerConfig ==
  [ReadTimeout |-> Milliseconds(Word(5000)),
   WriteTimeout |-> Milliseconds(Word(10000)),
   IdleTimeout |-> Milliseconds(Word(30000)),
   MaxRequestBodySize |-> Word(4 * 1024 * 1024),
   Concurrency |-> Word(256 * 1024),
   TCPKeepAlive |-> TRUE,
   ReduceMemoryUsage |-> TRUE,
   Port |-> DefaultPort]

(***************************************************************************)
(* State                                                                   *)
(***************************************************************************)
VARIABLES
  routes,            \* map key (path + method) -> RouteInfo
  middlewares,       \* registered middleware names, in registration order
  includeDebugData,  \* process-wide debug flag
  server,            \* StartServer: started, the handler built by applyMiddleware
  limiters,          \* per rate-limiter layer of the handler: client -> timestamps
  now,               \* time.Now(), in seconds
  req,               \* the request of the last exchange
  resp,              \* its response
  trace,             \* the wrappers and handler entered and left for it
  passed,            \* per rate-limiter layer and client: the times of the
                     \* requests it passed on to the wrapped handler
  serverConfig,      \* the ServerConfig that StartServer reads
  dependencies,      \* name -> value
  routesMu,          \* the sync.RWMutex of routes: its writer and its readers
  middlewaresMu,     \* the sync.RWMutex of middlewares
  depsMu,            \* the sync.RWMutex of dependencies
  ops,               \* the calls that take locks: the function each goroutine
                     \* runs and the step it is at
  threads,           \* callers of RegisterRoute and findMatchingRoute: where
                     \* each one is and what it holds
  finished,          \* the routes whose registration under the lock has returned
  limiterMu,         \* the sync.Mutex of the rate limiter: its holder
  handlers,          \* the goroutines serving requests: where each one is
  setter,            \* the caller of SetIncludeDebugData: where it is
  life,              \* StartServer's progress, the listener, the stop channel
                     \* and the requests being handled
  call               \* the exported function called last, with its arguments

vars == <<routes, middlewares, includeDebugData, server, limiters, now, req, resp,
          trace, passed, serverConfig, dependencies, routesMu, threads, finished,
          limiterMu, handlers, setter, life, call, middlewaresMu, depsMu, ops>>

\* what the actions of the registry, the dispatcher and the pipeline leave alone
configVars == <<serverConfig, dependencies>>
lockVars == <<routesMu, threads, finished, limiterMu, handlers, setter, middlewaresMu,
              depsMu, ops>>

\* RouteInfo{}
EmptyRoute ==
  [Path |-> <<>>, Method |-> <<>>, Message |-> <<>>, Parameters |-> <<>>,
   PathRegex |-> NilRegex, ParamNames |-> <<>>]

NoReq == [path |-> <<>>, method |-> <<>>, body |-> <<>>, headers |-> EmptyMap,
          query |-> EmptyMap, ip |-> "none"]

EmptyBody == [kind |-> "empty"]

\* no exchange yet
NoResp == [status |-> 0, ctype |-> "none", cors |-> FALSE, body |-> EmptyBody]

\* a fresh fasthttp response: 200, default content type, no body
FreshResp == [status |-> StatusOK, ctype |-> "text/plain", cors |-> FALSE,
              body |-> EmptyBody]

\* no exported function called yet, or one that is not recorded
NoCall == [op |-> "none"]

\* the callers of the registry: two of RegisterRoute, two of findMatchingRoute
Writers == {"w1", "w2"}
Readers == {"r1", "r2"}

IdleThread ==
  [pc |-> "idle", path |-> <<>>, method |-> <<>>, message |-> <<>>,
   pathRegex |-> NilRegex, paramNames |-> <<>>, found |-> <<>>,
   seen |-> {}, supportedMethods |-> <<>>, listed |-> {}]

\* the goroutines of two requests served at once
Handlers == {"h1", "h2"}

IdleHandler == [pc |-> "idle", ip |-> "none", path |-> <<>>, now |-> 0, debug |-> FALSE]

IdleSetter == [pc |-> "idle", enabled |-> FALSE]

\* routesMu with no holder
\* the host thread that calls the exported functions, and the goroutines of
\* two requests served at once
HostThreads == {"g1"}
ServerGoroutines == {"g2", "g3"}
Goroutines == HostThreads \cup ServerGoroutines

IdleOp == [op |-> "none", pc |-> 0]

\* a sync.RWMutex nobody holds or waits for: the writer inside, the readers
\* inside, the writer that has called Lock and waits for the readers to
\* leave, the readers that have called RLock and wait for the writer, and
\* the readers the writer has let in on leaving
Unlocked ==
  [writer |-> "none", readers |-> {}, pending |-> "none", blocked |-> {}, woken |-> {}]

\* before StartServer is called
NotCalled ==
  [main |-> "notCalled", listener |-> "none", stop |-> 0, signalled |-> FALSE,
   handling |-> {}, begunBeforeSignal |-> {}, completed |-> {}]

Init ==
  /\ serverConfig = DefaultServerConfig
  /\ dependencies = EmptyMap
  /\ routesMu = Unlocked
  /\ middlewaresMu = Unlocked
  /\ depsMu = Unlocked
  /\ ops = [g \in Goroutines |-> IdleOp]
  /\ threads = [t \in Writers \cup Readers |-> IdleThread]
  /\ finished = {}
  /\ limiterMu = "none"
  /\ handlers = [h \in Handlers |-> IdleHandler]
  /\ setter = IdleSetter
  /\ life = NotCalled
  /\ call = NoCall
  /\ routes = EmptyMap
  /\ middlewares = <<>>
  /\ includeDebugData = FALSE
  /\ server = [started |-> FALSE, handler |-> <<>>, registered |-> <<>>]
  /\ limiters = EmptyMap
  /\ now = 0
  /\ req = NoReq
  /\ resp = NoResp
  /\ trace = <<>>
  /\ passed = EmptyMap

\* the last exchange is over once the program's state changes under it
ForgetExchange == req' = NoReq /\ resp' = NoResp /\ trace' = <<>>

(***************************************************************************)
(* Route Registry                                                          *)
(***************************************************************************)
RouteKey(path, method) == path \o method

NewRoute(path, method, message, params) ==
  [Path |-> path, Method |-> method, Message |-> message, Parameters |-> params,
   PathRegex |-> pathToRegex(path).regex, ParamNames |-> pathToRegex(path).paramNames]

RegisterRoute(path, cMethod, message) ==
  LET method == ToUpper(cMethod)
  IN /\ routes' = MapPut(routes, RouteKey(path, method),
                         NewRoute(path, method, message, <<>>))
     /\ ForgetExchange
     /\ call' = [op |-> "RegisterRoute", path |-> path, method |-> cMethod,
                 message |-> message]
     /\ UNCHANGED <<middlewares, includeDebugData, server, limiters, now, passed>>
     /\ UNCHANGED <<configVars, lockVars, life>>

\* the keys of a JSON object that name a struct field: encoding/json matches
\* the tag without regard to case
FieldKeys(obj, field) == {k \in DOMAIN obj : ToLower(k) = field}

\* a string field accepts a JSON string and null
StringFieldOK(obj, field) ==
  \A k \in FieldKeys(obj, field) : obj[k].k = "str" \/ obj[k] = NullVal

StringField(obj, field) ==
  IF \E k \in FieldKeys(obj, field) : obj[k].k = "str"
  THEN obj[CHOOSE k \in FieldKeys(obj, field) : obj[k].k = "str"].v
  ELSE <<>>

TrueVal == LitVal(<<"t", "r", "u", "e">>)
FalseVal == LitVal(<<"f", "a", "l", "s", "e">>)

\* a bool field accepts true, false and null
BoolFieldOK(obj, field) ==
  \A k \in FieldKeys(obj, field) : obj[k] \in {TrueVal, FalseVal, NullVal}

BoolField(obj, field) == \E k \in FieldKeys(obj, field) : obj[k] = TrueVal

\* the json tags of ParameterInfo
StringTags ==
  {<<"n", "a", "m", "e">>, <<"i", "n">>,
   <<"d", "e", "s", "c", "r", "i", "p", "t", "i", "o", "n">>, <<"t", "y", "p", "e">>,
   <<"s", "c", "h", "e", "m", "a">>}
RequiredTag == <<"r", "e", "q", "u", "i", "r", "e", "d">>

\* one array element decodes into a ParameterInfo: null, or an object whose
\* tagged fields have the field's type
ParameterOK(val) ==
  \/ val = NullVal
  \/ /\ val.k = "obj"
     /\ \A tag \in StringTags : StringFieldOK(val.v, tag)
     /\ BoolFieldOK(val.v, RequiredTag)

ParameterInfo(val) ==
  IF val = NullVal
  THEN [Name |-> <<>>, In |-> <<>>, Description |-> <<>>, Required |-> FALSE,
        Type |-> <<>>, Schema |-> <<>>]
  ELSE [Name |-> StringField(val.v, <<"n", "a", "m", "e">>),
        In |-> StringField(val.v, <<"i", "n">>),
        Description |->
          StringField(val.v, <<"d", "e", "s", "c", "r", "i", "p", "t", "i", "o", "n">>),
        Required |-> BoolField(val.v, RequiredTag),
        Type |-> StringField(val.v, <<"t", "y", "p", "e">>),
        Schema |-> StringField(val.v, <<"s", "c", "h", "e", "m", "a">>)]

\* the decoded value r into a []ParameterInfo: null and arrays of parameters
\* only
IntoParams(r) ==
  IF r.ok /\ r.val = NullVal THEN [err |-> FALSE, val |-> <<>>]
  ELSE IF r.ok /\ r.val.k = "arr" /\ \A i \in DOMAIN r.val.v : ParameterOK(r.val.v[i])
  THEN [err |-> FALSE, val |-> [i \in DOMAIN r.val.v |-> ParameterInfo(r.val.v[i])]]
  ELSE [err |-> TRUE, val |-> <<>>]

\* json.Unmarshal([]byte(paramsJSON), &params)
UnmarshalParams(paramsJSON) == IntoParams(ParseJSON(paramsJSON))

\* mutant: the route is stored also when the payload did not decode
RegisterRouteWithParams_IgnoreError(path, cMethod, message, paramsJSON) ==
  /\ routes' = MapPut(routes, RouteKey(path, ToUpper(cMethod)),
                      NewRoute(path, ToUpper(cMethod), message,
                               UnmarshalParams(paramsJSON).val))
  /\ ForgetExchange
  /\ call' = [op |-> "RegisterRouteWithParams", path |-> path, method |-> cMethod,
              message |-> message, paramsJSON |-> paramsJSON]
  /\ UNCHANGED <<middlewares, includeDebugData, server, limiters, now, passed>>
  /\ UNCHANGED <<configVars, lockVars, life>>

RegisterRouteWithParams(path, cMethod, message, paramsJSON) ==
  /\ routes' = IF UnmarshalParams(paramsJSON).err THEN routes
               ELSE MapPut(routes, RouteKey(path, ToUpper(cMethod)),
                           NewRoute(path, ToUpper(cMethod), message,
                                    UnmarshalParams(paramsJSON).val))
  /\ ForgetExchange
  /\ call' = [op |-> "RegisterRouteWithParams", path |-> path, method |-> cMethod,
              message |-> message, paramsJSON |-> paramsJSON]
  /\ UNCHANGED <<middlewares, includeDebugData, server, limiters, now, passed>>
  /\ UNCHANGED <<configVars, lockVars, life>>

\* the loop over ParamNames filling pathParams from the submatches
RECURSIVE ExtractFrom(_, _, _, _)
ExtractFrom(names, matches, i, pathParams) ==
  IF i > Len(names) THEN pathParams
  ELSE ExtractFrom(names, matches, i + 1,
                   IF i + 1 <= Len(matches)
                   THEN MapPut(pathParams, names[i], matches[i + 1])
                   ELSE pathParams)

\* mutant: the i-th name bound to matches[i], the whole match counted as a capture
ExtractParams_OffByOne(names, matches) ==
  ExtractFrom(names, <<matches[1]>> \o matches, 1, EmptyMap)

ExtractParams(names, matches) == ExtractFrom(names, matches, 1, EmptyMap)

\* the routes the pattern scan can return: the scan stops at the first route
\* (in map iteration order) of the method whose pattern has a submatch
ScanHits(path, method) ==
  {k \in DOMAIN routes :
     /\ routes[k].Method = method
     /\ routes[k].PathRegex # NilRegex
     /\ Len(FindStringSubmatch(routes[k].PathRegex, path)) > 1}

ExactHit(path, method) == RouteKey(path, method) \in DOMAIN routes

\* mutant: the pattern scan runs before the exact lookup
findMatchingRoute_ScanFirst(path, method) ==
  IF ScanHits(path, method) # {}
  THEN {[route |-> routes[k],
         pathParams |-> ExtractParams(routes[k].ParamNames,
                                      FindStringSubmatch(routes[k].PathRegex, path)),
         exists |-> TRUE, scanned |-> TRUE] : k \in ScanHits(path, method)}
  ELSE IF ExactHit(path, method)
       THEN {[route |-> routes[RouteKey(path, method)], pathParams |-> EmptyMap,
              exists |-> TRUE, scanned |-> FALSE]}
       ELSE {[route |-> EmptyRoute, pathParams |-> EmptyMap, exists |-> FALSE,
              scanned |-> TRUE]}

\* the possible results (route, pathParams, exists)
findMatchingRoute(path, method) ==
  IF ExactHit(path, method)
  THEN {[route |-> routes[RouteKey(path, method)], pathParams |-> EmptyMap,
         exists |-> TRUE, scanned |-> FALSE]}
  ELSE IF ScanHits(path, method) = {}
       THEN {[route |-> EmptyRoute, pathParams |-> EmptyMap, exists |-> FALSE,
              scanned |-> TRUE]}
       ELSE {[route |-> routes[k],
              pathParams |-> ExtractParams(routes[k].ParamNames,
                                           FindStringSubmatch(routes[k].PathRegex, path)),
              exists |-> TRUE, scanned |-> TRUE] : k \in ScanHits(path, method)}

(***************************************************************************)
(* The registry under routesMu: RegisterRoute and findMatchingRoute as     *)
(* their steps, run by concurrent callers.  sync.RWMutex also keeps new    *)
(* readers out while a writer waits; that only removes interleavings.      *)
(***************************************************************************)
\* what the steps of the callers leave alone
restVars == <<middlewares, includeDebugData, server, limiters, now, req, resp, trace,
              passed, serverConfig, dependencies, life, call, limiterMu, handlers,
              setter, middlewaresMu, depsMu, ops>>

\* routesMu.Lock() returns: no writer and no reader holds the lock
CanLock(mu) == mu.writer = "none" /\ mu.readers = {}

\* mutant: readers are let in while a writer holds the lock
CanRLock_IgnoresWriter(mu) == TRUE

\* routesMu.RLock() returns: no writer holds the lock
CanRLock(mu) == mu.writer = "none"

\* RegisterRoute up to the lock: the arguments converted, the pattern compiled
BeginRegister(t, path, cMethod, message) ==
  /\ threads[t].pc = "idle"
  /\ threads' = [threads EXCEPT ![t] =
                   [@ EXCEPT !.pc = "compiled", !.path = path,
                             !.method = ToUpper(cMethod), !.message = message,
                             !.pathRegex = pathToRegex(path).regex,
                             !.paramNames = pathToRegex(path).paramNames]]
  /\ UNCHANGED <<routes, routesMu, finished, restVars>>

\* routesMu.Lock()
Lock(t) ==
  /\ threads[t].pc = "compiled"
  /\ CanLock(routesMu)
  /\ routesMu' = [routesMu EXCEPT !.writer = t]
  /\ threads' = [threads EXCEPT ![t].pc = "locked"]
  /\ UNCHANGED <<routes, finished, restVars>>

\* the slot of the key, as it is or zero-valued when the key is new
Slot(key) == IF key \in DOMAIN routes THEN routes[key] ELSE EmptyRoute

\* routes[key] = RouteInfo{...}, the first fields of the struct copied into
\* the map slot
WriteFirstFields(t) ==
  /\ threads[t].pc = "locked"
  /\ routes' = MapPut(routes, RouteKey(threads[t].path, threads[t].method),
                      [Slot(RouteKey(threads[t].path, threads[t].method)) EXCEPT
                         !.Path = threads[t].path, !.Method = threads[t].method,
                         !.Message = threads[t].message])
  /\ threads' = [threads EXCEPT ![t].pc = "writing"]
  /\ UNCHANGED <<routesMu, finished, restVars>>

\* the remaining fields copied
WriteLastFields(t) ==
  /\ threads[t].pc = "writing"
  /\ routes' = MapPut(routes, RouteKey(threads[t].path, threads[t].method),
                      [Slot(RouteKey(threads[t].path, threads[t].method)) EXCEPT
                         !.Parameters = <<>>, !.PathRegex = threads[t].pathRegex,
                         !.ParamNames = threads[t].paramNames])
  /\ threads' = [threads EXCEPT ![t].pc = "written"]
  /\ UNCHANGED <<routesMu, finished, restVars>>

\* routesMu.Unlock() and the return of RegisterRoute
Unlock(t) ==
  /\ threads[t].pc = "written"
  /\ routesMu' = [routesMu EXCEPT !.writer = "none"]
  /\ finished' = finished \cup {routes[RouteKey(threads[t].path, threads[t].method)]}
  /\ threads' = [threads EXCEPT ![t] = IdleThread]
  /\ UNCHANGED <<routes, restVars>>

\* findMatchingRoute: routesMu.RLock()
RLock(t, path, method) ==
  /\ threads[t].pc \in {"idle", "returned"}
  /\ CanRLock(routesMu)
  /\ routesMu' = [routesMu EXCEPT !.readers = @ \cup {t}]
  /\ threads' = [threads EXCEPT ![t] = [@ EXCEPT !.pc = "rlocked", !.path = path,
                                                  !.method = method]]
  /\ UNCHANGED <<routes, finished, restVars>>

\* the exact lookup and the scan, on the map as it is now
Lookup(t) ==
  /\ threads[t].pc = "rlocked"
  /\ \E f \in findMatchingRoute(threads[t].path, threads[t].method) :
       threads' = [threads EXCEPT ![t] = [@ EXCEPT !.pc = "found", !.found = f,
                                                  !.seen = DOMAIN routes]]
  /\ UNCHANGED <<routes, routesMu, finished, restVars>>

\* the deferred routesMu.RUnlock() and the return of what was found
RUnlock(t) ==
  /\ threads[t].pc = "found"
  /\ routesMu' = [routesMu EXCEPT !.readers = @ \ {t}]
  /\ threads' = [threads EXCEPT ![t].pc = "returned"]
  /\ UNCHANGED <<routes, finished, restVars>>

(***************************************************************************)
(* Parameter Resolver and Dispatcher                                       *)
(***************************************************************************)
RECURSIVE PutAll(_, _, _)
\* dst[Key(k)] = src[k] for every k of src
PutAll(dst, src, prefix) ==
  IF DOMAIN src = {} THEN dst
  ELSE LET k == CHOOSE x \in DOMAIN src : TRUE
           rest == [x \in (DOMAIN src) \ {k} |-> src[x]]
       IN PutAll(MapPut(dst, prefix \o k, src[k]), rest, prefix)

LowerKeys(headers) ==
  [k \in {ToLower(h) : h \in DOMAIN headers} |->
     headers[CHOOSE h \in DOMAIN headers : ToLower(h) = k]]

\* mutant: the query parameters first, the path parameters over them
parseRequestParams_PathOverQuery(r, pathParams) ==
  PutAll(PutAll(PutAll(EmptyMap, r.query, <<>>), pathParams, <<>>),
         LowerKeys(r.headers), HeaderPrefix)

\* path parameters, then query parameters, then "header:" + lower-cased name
parseRequestParams(r, pathParams) ==
  PutAll(PutAll(PutAll(EmptyMap, pathParams, <<>>), r.query, <<>>),
         LowerKeys(r.headers), HeaderPrefix)

\* ctx.Request.Header.Peek("Content-Type")
ContentTypeOf(r) ==
  IF ContentTypeKey \in DOMAIN r.headers THEN r.headers[ContentTypeKey] ELSE <<>>

\* mutant: only routes registered with exactly the request path are listed
HintKeys_ExactOnly(path) == {k \in DOMAIN routes : routes[k].Path = path}

\* the routes whose method the 404 hint lists
HintKeys(path) ==
  {k \in DOMAIN routes :
     \/ routes[k].Path = path
     \/ (routes[k].PathRegex # NilRegex /\ MatchString(routes[k].PathRegex, path))}

\* requestHandler after a miss: routesMu.RLock() before the loop for the hint
HintRLock(t) ==
  /\ threads[t].pc = "returned"
  /\ ~threads[t].found.exists
  /\ CanRLock(routesMu)
  /\ routesMu' = [routesMu EXCEPT !.readers = @ \cup {t}]
  /\ threads' = [threads EXCEPT ![t].pc = "hintLocked"]
  /\ UNCHANGED <<routes, finished, restVars>>

\* the hint as it would be if it were made from the routes the lookup saw
HintScanned_AtLookup(t) == {k \in HintKeys(threads[t].path) : k \in threads[t].seen}

\* the routes the loop appends the method of: those of the map as it is now
HintScanned(t) == HintKeys(threads[t].path)

\* the loop over routes, in map iteration order
HintScan(t) ==
  /\ threads[t].pc = "hintLocked"
  /\ \E order \in Orders(HintScanned(t)) :
       threads' = [threads EXCEPT ![t] =
                     [@ EXCEPT !.pc = "hinted",
                               !.supportedMethods =
                                 [i \in DOMAIN order |-> routes[order[i]].Method],
                               !.listed = HintScanned(t)]]
  /\ UNCHANGED <<routes, routesMu, finished, restVars>>

\* routesMu.RUnlock() after the loop; the 404 response is written
HintRUnlock(t) ==
  /\ threads[t].pc = "hinted"
  /\ routesMu' = [routesMu EXCEPT !.readers = @ \ {t}]
  /\ threads' = [threads EXCEPT ![t].pc = "answered"]
  /\ UNCHANGED <<routes, finished, restVars>>

NotFoundMessage(path, method, supportedMethods) ==
  RouteNotFoundFor \o method \o <<" ">> \o path
    \o (IF Len(supportedMethods) > 0
        THEN TryUsingMethod \o Join(supportedMethods, OrSep) ELSE <<>>)

\* the 404 responses: supportedMethods is filled in map iteration order
NotFoundResponses(path, method) ==
  {[status |-> StatusNotFound, ctype |-> "application/json",
    body |-> [kind |-> "ErrorResponse",
              Error |-> NotFoundMessage(path, method,
                                        [i \in DOMAIN order |-> routes[order[i]].Method]),
              StatusCode |-> StatusNotFound,
              supportedMethods |-> [i \in DOMAIN order |-> routes[order[i]].Method]]] :
     order \in Orders(HintKeys(path))}

\* the body is decoded only when it is not empty and the Content-Type
\* contains application/json
BodyDecoded(r) == Len(r.body) > 0 /\ Contains(ContentTypeOf(r), ApplicationJSON)

BadRequestResponse ==
  [status |-> StatusBadRequest, ctype |-> "keep",
   body |-> [kind |-> "ErrorResponse", Error |-> InvalidJSONBody,
             StatusCode |-> StatusBadRequest, supportedMethods |-> <<>>]]

\* mutant: the path parameters are attached whatever the debug flag says
ResponseData_AlwaysPathParams(r, params, pathParams) ==
  IF DOMAIN pathParams # {} THEN [kind |-> "pathParams", params |-> pathParams]
  ELSE [kind |-> "none"]

\* response.Data of the ApiResponse envelope
ResponseData(r, params, pathParams) ==
  LET hasBody == BodyDecoded(r) /\ UnmarshalMap(r.body).val # NullVal
  IN IF includeDebugData
     THEN IF DOMAIN params # {} \/ hasBody
          THEN [kind |-> "debug", hasParams |-> DOMAIN params # {}, params |-> params,
                hasBody |-> hasBody,
                body |-> IF hasBody THEN UnmarshalMap(r.body).val ELSE NullVal]
          ELSE [kind |-> "none"]
     ELSE IF DOMAIN pathParams # {} THEN [kind |-> "pathParams", params |-> pathParams]
          ELSE [kind |-> "none"]

\* the second json.Unmarshal: the processed message as the whole body, or
\* the ApiResponse envelope around it
SuccessResponse(r, processedMessage, params, pathParams) ==
  IF ~UnmarshalMap(processedMessage).err
  THEN [status |-> KeepStatus, ctype |-> "application/json",
        body |-> [kind |-> "raw", text |-> processedMessage]]
  ELSE [status |-> KeepStatus, ctype |-> "application/json",
        body |-> [kind |-> "ApiResponse", Message |-> processedMessage,
                  Data |-> ResponseData(r, params, pathParams)]]

\* mutant: the template is rendered from the merged request parameters
requestHandler_MergedInTemplate(r) ==
  IF r.path = OpenAPIPath
  THEN {[status |-> KeepStatus, ctype |-> "application/json",
         body |-> [kind |-> "openapi",
                   paths |-> {<<routes[k].Path, ToLower(routes[k].Method)>> :
                                k \in DOMAIN routes}]]}
  ELSE IF HasPrefix(r.path, SwaggerPrefix)
  THEN {[status |-> KeepStatus, ctype |-> "keep", body |-> [kind |-> "file"]]}
  ELSE UNION {
    IF ~f.exists THEN NotFoundResponses(r.path, r.method)
    ELSE IF BodyDecoded(r) /\ UnmarshalMap(r.body).err THEN {BadRequestResponse}
    ELSE {SuccessResponse(r, m, parseRequestParams(r, f.pathParams), f.pathParams) :
            m \in processMessageTemplate(f.route.Message,
                                         parseRequestParams(r, f.pathParams))}
    : f \in findMatchingRoute(r.path, r.method)}

\* mutant: the route lookup comes first, the documentation paths after it
requestHandler_LookupFirst(r) ==
  UNION {
    IF f.exists
    THEN IF BodyDecoded(r) /\ UnmarshalMap(r.body).err THEN {BadRequestResponse}
         ELSE {SuccessResponse(r, m, parseRequestParams(r, f.pathParams), f.pathParams) :
                 m \in processMessageTemplate(f.route.Message, f.pathParams)}
    ELSE IF r.path = OpenAPIPath
    THEN {[status |-> KeepStatus, ctype |-> "application/json",
           body |-> [kind |-> "openapi",
                     paths |-> {<<routes[k].Path, ToLower(routes[k].Method)>> :
                                  k \in DOMAIN routes}]]}
    ELSE IF HasPrefix(r.path, SwaggerPrefix)
    THEN {[status |-> KeepStatus, ctype |-> "keep", body |-> [kind |-> "file"]]}
    ELSE NotFoundResponses(r.path, r.method)
    : f \in findMatchingRoute(r.path, r.method)}

\* what requestHandler can set on the response of request r
requestHandler(r) ==
  IF r.path = OpenAPIPath
  THEN {[status |-> KeepStatus, ctype |-> "application/json",
         body |-> [kind |-> "openapi",
                   paths |-> {<<routes[k].Path, ToLower(routes[k].Method)>> :
                                k \in DOMAIN routes}]]}
  ELSE IF HasPrefix(r.path, SwaggerPrefix)
  THEN {[status |-> KeepStatus, ctype |-> "keep", body |-> [kind |-> "file"]]}
  ELSE UNION {
    IF ~f.exists THEN NotFoundResponses(r.path, r.method)
    ELSE IF BodyDecoded(r) /\ UnmarshalMap(r.body).err THEN {BadRequestResponse}
    ELSE {SuccessResponse(r, m, parseRequestParams(r, f.pathParams), f.pathParams) :
            m \in processMessageTemplate(f.route.Message, f.pathParams)}
    : f \in findMatchingRoute(r.path, r.method)}

SetIncludeDebugData(enabled) ==
  /\ includeDebugData' = enabled
  /\ ForgetExchange
  /\ call' = NoCall
  /\ UNCHANGED <<routes, middlewares, server, limiters, now, passed>>
  /\ UNCHANGED <<configVars, lockVars, life>>

\* dependencies[name] = value
RegisterDependency(name, value) ==
  /\ dependencies' = MapPut(dependencies, name, value)
  /\ ForgetExchange
  /\ call' = NoCall
  /\ UNCHANGED <<routes, middlewares, includeDebugData, server, limiters, now, passed>>
  /\ UNCHANGED <<serverConfig, lockVars, life>>

\* a *C.char argument: the nil pointer, or a pointer to a C string
NilPtr == [nil |-> TRUE, str |-> <<>>]
CString(str) == [nil |-> FALSE, str |-> str]

\* every numeric field is set when its argument, read as a signed 64-bit
\* number, is above zero, the timeouts multiplied by time.Millisecond in
\* 64 bits; the port is set when the pointer is not nil and the string not
\* empty
SetServerConfig(cReadTimeout, cWriteTimeout, cIdleTimeout, cMaxBodySize, cConcurrency, cPort) ==
  /\ serverConfig' =
       [serverConfig EXCEPT
          !.ReadTimeout =
            IF IsPositive(cReadTimeout) THEN Milliseconds(cReadTimeout) ELSE @,
          !.WriteTimeout =
            IF IsPositive(cWriteTimeout) THEN Milliseconds(cWriteTimeout) ELSE @,
          !.IdleTimeout =
            IF IsPositive(cIdleTimeout) THEN Milliseconds(cIdleTimeout) ELSE @,
          !.MaxRequestBodySize = IF IsPositive(cMaxBodySize) THEN cMaxBodySize ELSE @,
          !.Concurrency = IF IsPositive(cConcurrency) THEN cConcurrency ELSE @,
          !.Port = IF ~cPort.nil /\ cPort.str # <<>> THEN cPort.str ELSE @]
  /\ ForgetExchange
  /\ call' = [op |-> "SetServerConfig", readTimeout |-> cReadTimeout,
              writeTimeout |-> cWriteTimeout, idleTimeout |-> cIdleTimeout,
              maxBodySize |-> cMaxBodySize, concurrency |-> cConcurrency,
              port |-> cPort]
  /\ UNCHANGED <<routes, middlewares, includeDebugData, server, limiters, now, passed>>
  /\ UNCHANGED <<dependencies, lockVars, life>>

(***************************************************************************)
(* Middleware Pipeline                                                     *)
(***************************************************************************)
MiddlewareNames == {"logging", "cors", "rate_limiter"}

\* result = middlewares[i](result) for i = len-1 .. 0: the handler as the
\* list of its wrappers, outermost first, around requestHandler
RECURSIVE WrapFrom(_, _, _)
WrapFrom(mws, i, result) ==
  IF i < 1 THEN result ELSE WrapFrom(mws, i - 1, <<mws[i]>> \o result)

\* mutant: the wrappers applied in registration order, the last one outermost
applyMiddleware_Forward(mws) ==
  [i \in DOMAIN mws |-> mws[Len(mws) + 1 - i]]

applyMiddleware(mws) == WrapFrom(mws, Len(mws), <<>>)

RateLimiterLayers(handler) == {i \in DOMAIN handler : handler[i] = "rate_limiter"}

\* mutant: a registration after StartServer rebuilds the handler of the
\* running server from the new list
RegisterMiddleware_Rebuilds(name, enabled) ==
  /\ middlewares' = IF enabled /\ name \in MiddlewareNames
                    THEN Append(middlewares, name) ELSE middlewares
  /\ server' = IF server.started
               THEN [server EXCEPT !.handler = applyMiddleware(middlewares')]
               ELSE server
  /\ limiters' = IF server.started
                 THEN [i \in RateLimiterLayers(applyMiddleware(middlewares')) |-> EmptyMap]
                 ELSE limiters
  /\ passed' = IF server.started
               THEN [i \in RateLimiterLayers(applyMiddleware(middlewares')) |-> EmptyMap]
               ELSE passed
  /\ ForgetExchange
  /\ call' = [op |-> "RegisterMiddleware", name |-> name, enabled |-> enabled]
  /\ UNCHANGED <<routes, includeDebugData, now>>
  /\ UNCHANGED <<configVars, lockVars, life>>

\* mutant: the default case of the switch appends as well
RegisterMiddleware_AppendsUnknown(name, enabled) ==
  /\ middlewares' = IF enabled THEN Append(middlewares, name) ELSE middlewares
  /\ ForgetExchange
  /\ call' = [op |-> "RegisterMiddleware", name |-> name, enabled |-> enabled]
  /\ UNCHANGED <<routes, includeDebugData, server, limiters, now, passed>>
  /\ UNCHANGED <<configVars, lockVars, life>>

RegisterMiddleware(name, enabled) ==
  /\ middlewares' = IF enabled /\ name \in MiddlewareNames
                    THEN Append(middlewares, name) ELSE middlewares
  /\ ForgetExchange
  /\ call' = [op |-> "RegisterMiddleware", name |-> name, enabled |-> enabled]
  /\ UNCHANGED <<routes, includeDebugData, server, limiters, now, passed>>
  /\ UNCHANGED <<configVars, lockVars, life>>

\* every rateLimiterMiddleware call creates its own empty clients map
StartServer ==
  /\ ~server.started
  /\ server' = [started |-> TRUE, handler |-> applyMiddleware(middlewares),
                registered |-> middlewares]
  /\ limiters' = [i \in RateLimiterLayers(applyMiddleware(middlewares)) |-> EmptyMap]
  /\ passed' = [i \in RateLimiterLayers(applyMiddleware(middlewares)) |-> EmptyMap]
  /\ ForgetExchange
  /\ call' = NoCall
  /\ life' = [life EXCEPT !.main = "waiting"]
  /\ UNCHANGED <<routes, middlewares, includeDebugData, now>>
  /\ UNCHANGED <<configVars, lockVars>>

Ev(kind, i) == [ev |-> kind, layer |-> i]
Enter(st, i) == [st EXCEPT !.trace = Append(@, Ev("enter", i))]
Exit(st, i) == [st EXCEPT !.trace = Append(@, Ev("exit", i))]

\* ctx.Response after the handler wrote what it writes
Respond(old, h) ==
  [status |-> IF h.status = KeepStatus THEN old.status ELSE h.status,
   ctype |-> IF h.ctype = "keep" THEN old.ctype ELSE h.ctype,
   cors |-> old.cors,
   body |-> h.body]

TimesOf(clients, ip) == IF ip \in DOMAIN clients THEN clients[ip] ELSE <<>>

\* mutant: a timestamp exactly one window old is still counted
InWindow_Inclusive(t, nowT) == nowT - t <= windowSize

\* now.Sub(t) < windowSize
InWindow(t, nowT) == nowT - t < windowSize

RECURSIVE ValidTimes(_, _)
ValidTimes(times, nowT) ==
  IF times = <<>> THEN <<>>
  ELSE (IF InWindow(times[1], nowT) THEN <<times[1]>> ELSE <<>>)
       \o ValidTimes(Tail(times), nowT)

\* clients after the clean-up of the entry of ip
Pruned(clients, ip, nowT) ==
  IF ip \in DOMAIN clients THEN MapPut(clients, ip, ValidTimes(clients[ip], nowT))
  ELSE clients

\* the rate limit check
LimitReached(times) == Len(times) >= maxReqs

RateLimitBody == [kind |-> "raw429"]

RECURSIVE RunFrom(_, _, _)
RECURSIVE loggingMiddleware(_, _, _)
RECURSIVE corsMiddleware(_, _, _)
RECURSIVE rateLimiterMiddleware(_, _, _)

\* the outcomes of running layer i (and what it wraps) of the server's
\* handler on request r from st = [resp, trace, lim, passed]
RunFrom(r, i, st) ==
  IF i > Len(server.handler)
  THEN {[st EXCEPT !.resp = Respond(@, h), !.trace = Append(@, Ev("handler", 0))] :
          h \in requestHandler(r)}
  ELSE CASE server.handler[i] = "logging" -> loggingMiddleware(r, i, st)
         [] server.handler[i] = "cors" -> corsMiddleware(r, i, st)
         [] server.handler[i] = "rate_limiter" -> rateLimiterMiddleware(r, i, st)

loggingMiddleware(r, i, st) ==
  {Exit(s, i) : s \in RunFrom(r, i + 1, Enter(st, i))}

\* mutant: OPTIONS is passed on to the wrapped handler
corsMiddleware_PassOptions(r, i, st) ==
  {Exit(s, i) : s \in RunFrom(r, i + 1, [Enter(st, i) EXCEPT !.resp.cors = TRUE])}

corsMiddleware(r, i, st) ==
  LET st1 == [Enter(st, i) EXCEPT !.resp.cors = TRUE]
  IN IF r.method = OPTIONS
     THEN {Exit([st1 EXCEPT !.resp.status = StatusNoContent], i)}
     ELSE {Exit(s, i) : s \in RunFrom(r, i + 1, st1)}

rateLimiterMiddleware(r, i, st) ==
  LET clients == Pruned(st.lim[i], r.ip, now)
      st1 == [Enter(st, i) EXCEPT !.lim[i] = clients]
  IN IF LimitReached(TimesOf(clients, r.ip))
     THEN {Exit([st1 EXCEPT !.resp.status = StatusTooManyRequests,
                            !.resp.body = RateLimitBody], i)}
     ELSE {Exit(s, i) :
             s \in RunFrom(r, i + 1,
                     [st1 EXCEPT
                        !.lim[i] = MapPut(clients, r.ip,
                                          Append(TimesOf(clients, r.ip), now)),
                        !.passed[i] = MapPut(@, r.ip,
                                             Append(TimesOf(@, r.ip), now))])}

\* the server handles one request
Request(r) ==
  /\ server.started
  /\ \E out \in RunFrom(r, 1, [resp |-> FreshResp, trace |-> <<>>,
                               lim |-> limiters, passed |-> passed]) :
       /\ req' = r
       /\ resp' = out.resp
       /\ trace' = out.trace
       /\ limiters' = out.lim
       /\ passed' = out.passed
  /\ call' = NoCall
  /\ UNCHANGED <<routes, middlewares, includeDebugData, server, now>>
  /\ UNCHANGED <<configVars, lockVars, life>>

\* time passes
Tick(t) ==
  /\ t > now
  /\ now' = t
  /\ ForgetExchange
  /\ call' = NoCall
  /\ UNCHANGED <<routes, middlewares, includeDebugData, server, limiters, passed>>
  /\ UNCHANGED <<configVars, lockVars, life>>

(***************************************************************************)
(* Requests served at once: the closure of rateLimiterMiddleware and       *)
(* requestHandler as their steps, one goroutine per request, and           *)
(* SetIncludeDebugData beside them                                         *)
(***************************************************************************)
\* what the steps of the goroutines leave alone
servedRest == <<routes, middlewares, server, req, resp, trace, serverConfig,
                dependencies, routesMu, threads, finished, life, call, middlewaresMu,
                depsMu, ops>>

\* a request of client ip for path arrives; the outermost layer is entered
Arrive(h, ip, path) ==
  /\ server.started
  /\ handlers[h].pc = "idle"
  /\ handlers' = [handlers EXCEPT ![h] =
                    [IdleHandler EXCEPT
                       !.pc = IF server.handler = <<"rate_limiter">> THEN "limiter"
                              ELSE "handler",
                       !.ip = ip, !.path = path]]
  /\ UNCHANGED <<limiters, passed, now, includeDebugData, limiterMu, setter, servedRest>>

\* mutant: the mutex lets a second goroutine in
CanLockMu_Always(holder) == TRUE

\* mu.Lock() returns
CanLockMu(holder) == holder = "none"

\* mu.Lock()
LockMu(h) ==
  /\ handlers[h].pc = "limiter"
  /\ CanLockMu(limiterMu)
  /\ limiterMu' = h
  /\ handlers' = [handlers EXCEPT ![h].pc = "locked"]
  /\ UNCHANGED <<limiters, passed, now, includeDebugData, setter, servedRest>>

\* now := time.Now() and the clean-up of the entry of the client
CleanUp(h) ==
  /\ handlers[h].pc = "locked"
  /\ limiters' = [limiters EXCEPT ![1] = Pruned(@, handlers[h].ip, now)]
  /\ handlers' = [handlers EXCEPT ![h].pc = "cleaned", ![h].now = now]
  /\ UNCHANGED <<passed, now, includeDebugData, limiterMu, setter, servedRest>>

\* the limit is reached: mu.Unlock(), the 429 response, return
Reject(h) ==
  /\ handlers[h].pc = "cleaned"
  /\ LimitReached(TimesOf(limiters[1], handlers[h].ip))
  /\ limiterMu' = "none"
  /\ handlers' = [handlers EXCEPT ![h].pc = "rejected"]
  /\ UNCHANGED <<limiters, passed, now, includeDebugData, setter, servedRest>>

\* the limit is not reached: the timestamp appended
AppendTime(h) ==
  /\ handlers[h].pc = "cleaned"
  /\ ~LimitReached(TimesOf(limiters[1], handlers[h].ip))
  /\ limiters' = [limiters EXCEPT ![1] =
                    MapPut(@, handlers[h].ip,
                           Append(TimesOf(@, handlers[h].ip), handlers[h].now))]
  /\ handlers' = [handlers EXCEPT ![h].pc = "appended"]
  /\ UNCHANGED <<passed, now, includeDebugData, limiterMu, setter, servedRest>>

\* mu.Unlock() and next(ctx): the request is passed on
PassOn(h) ==
  /\ handlers[h].pc = "appended"
  /\ limiterMu' = "none"
  /\ passed' = [passed EXCEPT ![1] =
                  MapPut(@, handlers[h].ip,
                         Append(TimesOf(@, handlers[h].ip), handlers[h].now))]
  /\ handlers' = [handlers EXCEPT ![h].pc = "handler"]
  /\ UNCHANGED <<limiters, now, includeDebugData, setter, servedRest>>

\* the request of goroutine h gets the ApiResponse envelope: its route
\* exists and the rendered text is no JSON object
ReachesEnvelope(path) ==
  \E f \in findMatchingRoute(path, GET) :
    /\ f.exists
    /\ \E m \in processMessageTemplate(f.route.Message, f.pathParams) :
         UnmarshalMap(m).err

\* requestHandler up to the response data: the lookup, the template
Dispatch(h) ==
  /\ handlers[h].pc = "handler"
  /\ handlers' = [handlers EXCEPT ![h].pc =
                    IF ReachesEnvelope(handlers[h].path) THEN "envelope" ELSE "served"]
  /\ UNCHANGED <<limiters, passed, now, includeDebugData, limiterMu, setter, servedRest>>

\* if includeDebugData: the flag is read with no lock held; a write that is
\* under way at the same time makes the read see either value
ReadFlag(h) ==
  /\ handlers[h].pc = "envelope"
  /\ \E seen \in {includeDebugData}
                  \cup (IF setter.pc = "writing" THEN {setter.enabled} ELSE {}) :
       handlers' = [handlers EXCEPT ![h].pc = "served", ![h].debug = seen]
  /\ UNCHANGED <<limiters, passed, now, includeDebugData, limiterMu, setter, servedRest>>

\* the response is written and the goroutine is free for the next request;
\* the record keeps what the last response was made from
Return(h) ==
  /\ handlers[h].pc \in {"served", "rejected"}
  /\ handlers' = [handlers EXCEPT ![h].pc = "idle"]
  /\ UNCHANGED <<limiters, passed, now, includeDebugData, limiterMu, setter, servedRest>>

\* SetIncludeDebugData is called: enabled := cEnabled != 0
BeginSetDebug(enabled) ==
  /\ setter.pc = "idle"
  /\ setter' = [pc |-> "writing", enabled |-> enabled]
  /\ UNCHANGED <<limiters, passed, now, includeDebugData, limiterMu, handlers, servedRest>>

\* includeDebugData = enabled, with no lock held
WriteFlag ==
  /\ setter.pc = "writing"
  /\ includeDebugData' = setter.enabled
  /\ setter' = IdleSetter
  /\ UNCHANGED <<limiters, passed, now, limiterMu, handlers, servedRest>>

\* time passes under the goroutines
Clock(t) ==
  /\ t > now
  /\ now' = t
  /\ UNCHANGED <<limiters, passed, includeDebugData, limiterMu, handlers, setter, servedRest>>

(***************************************************************************)
(* Every lock of the library and the calls that take one: each function as *)
(* the lock operations it performs, in order, on each of its return paths, *)
(* with the work done between them as one step.  sync.RWMutex as its       *)
(* documentation describes it: a writer that has called Lock keeps new     *)
(* readers out until it has held and released the lock, and on releasing   *)
(* it lets in the readers that waited                                      *)
(***************************************************************************)
heldRest == <<routes, middlewares, includeDebugData, server, limiters, now, req, resp,
              trace, passed, serverConfig, dependencies, threads, finished, handlers,
              setter, life, call>>

RWMutexes == {"routesMu", "middlewaresMu", "depsMu"}

MuOf(name) ==
  CASE name = "routesMu" -> routesMu
    [] name = "middlewaresMu" -> middlewaresMu
    [] OTHER -> depsMu

\* the mutex name becomes v; the other two stay as they are
SetMu(name, v) ==
  /\ routesMu' = IF name = "routesMu" THEN v ELSE routesMu
  /\ middlewaresMu' = IF name = "middlewaresMu" THEN v ELSE middlewaresMu
  /\ depsMu' = IF name = "depsMu" THEN v ELSE depsMu

Op(kind, lock) == [kind |-> kind, lock |-> lock]

\* Lock, the statements under the lock, Unlock
Exclusive(lock) == <<Op("Lock", lock), Op("body", lock), Op("Unlock", lock)>>

\* RLock, the statements under the lock, RUnlock
Shared(lock) == <<Op("RLock", lock), Op("body", lock), Op("RUnlock", lock)>>

\* RegisterRoute and RegisterRouteWithParams: routesMu.Lock() after the
\* arguments are converted, routesMu.Unlock() as the last statement
RegisterRouteOps == Exclusive("routesMu")

\* RegisterMiddleware of an enabled middleware: middlewaresMu.Lock() and the
\* deferred Unlock around the switch
RegisterMiddlewareOps == Exclusive("middlewaresMu")

\* RegisterDependency
RegisterDependencyOps == Exclusive("depsMu")

\* GetDependency
GetDependencyOps == Shared("depsMu")

\* applyMiddleware, called by StartServer; the middleware constructors it
\* calls under the lock take no lock
applyMiddlewareOps == Shared("middlewaresMu")

\* ServeOpenAPI: the listing of routes
ServeOpenAPIOps == Shared("routesMu")

\* findMatchingRoute: RLock and the deferred RUnlock
findMatchingRouteOps == Shared("routesMu")

\* requestHandler when no route was found: the loop over routes for the hint
HintOps == Shared("routesMu")

\* mutant: the limit is reached and the closure returns with mu held
LimiterRejectOps_KeepsMu == <<Op("Lock", "mu"), Op("body", "mu")>>

\* rateLimiterMiddleware, the limit reached: mu.Lock(), the clean-up and the
\* count, mu.Unlock(), return
LimiterRejectOps == Exclusive("mu")

\* rateLimiterMiddleware, the limit not reached: mu.Lock(), the clean-up,
\* the count, the append, mu.Unlock(); next(ctx) is called after it
LimiterPassOps == Exclusive("mu")

\* the calls of the host, StartServer's applyMiddleware among them
HostOps ==
  {"RegisterRoute", "RegisterMiddleware", "RegisterDependency", "GetDependency",
   "applyMiddleware"}

\* the requests, one name per return path of the handler
RequestOps == {"rejected", "openapi", "found", "notFound"}

OpNames == HostOps \cup RequestOps

\* the lock operations of a call, in the order in which it performs them
Program(op) ==
  CASE op = "RegisterRoute" -> RegisterRouteOps
    [] op = "RegisterMiddleware" -> RegisterMiddlewareOps
    [] op = "RegisterDependency" -> RegisterDependencyOps
    [] op = "GetDependency" -> GetDependencyOps
    [] op = "applyMiddleware" -> applyMiddlewareOps
    [] op = "rejected" -> LimiterRejectOps
    [] op = "openapi" -> LimiterPassOps \o ServeOpenAPIOps
    [] op = "found" -> LimiterPassOps \o findMatchingRouteOps
    [] op = "notFound" -> LimiterPassOps \o findMatchingRouteOps \o HintOps
    [] OTHER -> <<>>

\* the operation goroutine g is at
At(g) == Program(ops[g].op)[ops[g].pc]

IsAt(g, kind) ==
  /\ ops[g].pc \in DOMAIN Program(ops[g].op)
  /\ At(g).kind = kind

\* g has performed the operation it was at: the next one, or the return
Advanced(g) ==
  [ops EXCEPT ![g] = IF ops[g].pc = Len(Program(ops[g].op)) THEN IdleOp
                     ELSE [@ EXCEPT !.pc = @ + 1]]

\* a call begins, a request arrives
Begin(g, op) ==
  /\ ops[g] = IdleOp
  /\ op \in (IF g \in HostThreads THEN HostOps ELSE RequestOps)
  /\ Program(op) # <<>>
  /\ ops' = [ops EXCEPT ![g] = [op |-> op, pc |-> 1]]
  /\ UNCHANGED <<routesMu, middlewaresMu, depsMu, limiterMu, heldRest>>

\* Lock(): no other writer is inside or waiting; new readers are kept out
\* from now on
WriterWaits(g) ==
  /\ IsAt(g, "Lock")
  /\ At(g).lock \in RWMutexes
  /\ MuOf(At(g).lock).writer = "none"
  /\ MuOf(At(g).lock).pending = "none"
  /\ SetMu(At(g).lock, [MuOf(At(g).lock) EXCEPT !.pending = g])
  /\ UNCHANGED <<ops, limiterMu, heldRest>>

\* Lock() returns: the readers that were inside have left
WriterEnters(g) ==
  /\ IsAt(g, "Lock")
  /\ At(g).lock \in RWMutexes
  /\ MuOf(At(g).lock).pending = g
  /\ MuOf(At(g).lock).readers = {}
  /\ SetMu(At(g).lock, [MuOf(At(g).lock) EXCEPT !.pending = "none", !.writer = g])
  /\ ops' = Advanced(g)
  /\ UNCHANGED <<limiterMu, heldRest>>

\* Unlock(): the readers that waited are let in
WriterLeaves(g) ==
  /\ IsAt(g, "Unlock")
  /\ At(g).lock \in RWMutexes
  /\ MuOf(At(g).lock).writer = g
  /\ SetMu(At(g).lock, [MuOf(At(g).lock) EXCEPT
                          !.writer = "none", !.readers = @ \cup MuOf(At(g).lock).blocked,
                          !.woken = MuOf(At(g).lock).blocked, !.blocked = {}])
  /\ ops' = Advanced(g)
  /\ UNCHANGED <<limiterMu, heldRest>>

\* g has called RLock() and has neither got the lock nor returned from it
Calling(g) ==
  g \notin MuOf(At(g).lock).blocked \cup MuOf(At(g).lock).woken

\* RLock() returns at once: no writer is inside or waiting
ReaderEnters(g) ==
  /\ IsAt(g, "RLock")
  /\ Calling(g)
  /\ MuOf(At(g).lock).writer = "none"
  /\ MuOf(At(g).lock).pending = "none"
  /\ SetMu(At(g).lock, [MuOf(At(g).lock) EXCEPT !.readers = @ \cup {g}])
  /\ ops' = Advanced(g)
  /\ UNCHANGED <<limiterMu, heldRest>>

\* RLock() blocks: a writer is inside or waiting
ReaderWaits(g) ==
  /\ IsAt(g, "RLock")
  /\ Calling(g)
  /\ MuOf(At(g).lock).writer # "none" \/ MuOf(At(g).lock).pending # "none"
  /\ SetMu(At(g).lock, [MuOf(At(g).lock) EXCEPT !.blocked = @ \cup {g}])
  /\ UNCHANGED <<ops, limiterMu, heldRest>>

\* RLock() returns after the writer has left
ReaderWakes(g) ==
  /\ IsAt(g, "RLock")
  /\ g \in MuOf(At(g).lock).woken
  /\ SetMu(At(g).lock, [MuOf(At(g).lock) EXCEPT !.woken = @ \ {g}])
  /\ ops' = Advanced(g)
  /\ UNCHANGED <<limiterMu, heldRest>>

\* RUnlock()
ReaderLeaves(g) ==
  /\ IsAt(g, "RUnlock")
  /\ g \in MuOf(At(g).lock).readers
  /\ SetMu(At(g).lock, [MuOf(At(g).lock) EXCEPT !.readers = @ \ {g}])
  /\ ops' = Advanced(g)
  /\ UNCHANGED <<limiterMu, heldRest>>

\* mu.Lock() of the rate limiter
MutexEnters(g) ==
  /\ IsAt(g, "Lock")
  /\ At(g).lock = "mu"
  /\ CanLockMu(limiterMu)
  /\ limiterMu' = g
  /\ ops' = Advanced(g)
  /\ UNCHANGED <<routesMu, middlewaresMu, depsMu, heldRest>>

\* mu.Unlock() of the rate limiter
MutexLeaves(g) ==
  /\ IsAt(g, "Unlock")
  /\ At(g).lock = "mu"
  /\ limiterMu = g
  /\ limiterMu' = "none"
  /\ ops' = Advanced(g)
  /\ UNCHANGED <<routesMu, middlewaresMu, depsMu, heldRest>>

\* the statements between the lock operations: straight-line code and loops
\* over finite collections
Body(g) ==
  /\ IsAt(g, "body")
  /\ ops' = Advanced(g)
  /\ UNCHANGED <<routesMu, middlewaresMu, depsMu, limiterMu, heldRest>>

\* the acquisitions that wait for a sync.Mutex (mu, and the writers' mutex
\* inside a sync.RWMutex)
BlockingStep(g) == WriterWaits(g) \/ MutexEnters(g)

\* what g does once its call has begun
Step(g) ==
  \/ WriterWaits(g) \/ WriterEnters(g) \/ WriterLeaves(g)
  \/ ReaderEnters(g) \/ ReaderWaits(g) \/ ReaderWakes(g) \/ ReaderLeaves(g)
  \/ MutexEnters(g) \/ MutexLeaves(g) \/ Body(g)

(***************************************************************************)
(* StartServer after the handler is built: the goroutine that listens, the *)
(* stop channel, and fasthttp's Shutdown, which returns at once when the   *)
(* server has no listener and otherwise closes the listener and waits      *)
(* until no connection is being served; it interrupts none                 *)
(***************************************************************************)
lifeRest == <<routes, middlewares, includeDebugData, server, limiters, now, req, resp,
              trace, passed, configVars, lockVars, call>>

\* the goroutine: server.ListenAndServe(serverConfig.Port) gets its listener
\* or fails
ListenAndServe(ok) ==
  /\ life.main # "notCalled"
  /\ life.listener = "none"
  /\ life' = [life EXCEPT !.listener = IF ok THEN "open" ELSE "failed"]
  /\ UNCHANGED lifeRest

\* the server accepts a request and starts its handler
BeginRequest(id) ==
  /\ life.listener = "open"
  /\ id \notin life.handling \cup life.completed
  /\ life' = [life EXCEPT !.handling = @ \cup {id},
                          !.begunBeforeSignal =
                            IF life.signalled THEN @ ELSE @ \cup {id}]
  /\ UNCHANGED lifeRest

\* the handler returns and the response is written
FinishRequest(id) ==
  /\ id \in life.handling
  /\ life' = [life EXCEPT !.handling = @ \ {id}, !.completed = @ \cup {id}]
  /\ UNCHANGED lifeRest

\* os.Interrupt or SIGTERM after signal.Notify: sent to stop without
\* blocking, dropped when the one-element buffer is full
Signal ==
  /\ life.main # "notCalled"
  /\ life' = [life EXCEPT !.stop = 1, !.signalled = TRUE]
  /\ UNCHANGED lifeRest

\* mutant: the wait also ends when the listener failed
StopReceived_OrListenerFailed(l) == l.stop > 0 \/ l.listener = "failed"

\* <-stop can proceed
StopReceived(l) == l.stop > 0

\* <-stop
ReceiveStop ==
  /\ life.main = "waiting"
  /\ StopReceived(life)
  /\ life' = [life EXCEPT !.stop = 0, !.main = "shutdown"]
  /\ UNCHANGED lifeRest

\* server.Shutdown(): no listener, nothing to do; else the listener closed
CloseListeners ==
  /\ life.main = "shutdown"
  /\ life' = IF life.listener = "open"
             THEN [life EXCEPT !.listener = "closed", !.main = "draining"]
             ELSE [life EXCEPT !.main = "returned"]
  /\ UNCHANGED lifeRest

\* server.Shutdown() returns once no request is being served, and
\* StartServer with it
ShutdownReturns ==
  /\ life.main = "draining"
  /\ life.handling = {}
  /\ life' = [life EXCEPT !.main = "returned"]
  /\ UNCHANGED lifeRest

(***************************************************************************)
(* Inputs and bounds                                                       *)
(***************************************************************************)
MaxRoutes == 2          \* routes in the registry
MaxMiddlewares == 2     \* RegisterMiddleware calls that append
MaxOtherRequests == 1   \* requests of the second client
MaxInFlight == 2        \* requests the server accepts in its lifetime

\* /hello/{name}
PathHelloName == <<"/", "h", "e", "l", "l", "o", "/", "{", "n", "a", "m", "e", "}">>

\* /hello/world
PathHelloWorld == <<"/", "h", "e", "l", "l", "o", "/", "w", "o", "r", "l", "d">>

\* /v.1
PathDot == <<"/", "v", ".", "1">>

\* /{a}/{a}
PathDup == <<"/", "{", "a", "}", "/", "{", "a", "}">>

\* /{a}/{b}
PathTwo == <<"/", "{", "a", "}", "/", "{", "b", "}">>

\* /(
PathParen == <<"/", "(">>

\* /vx1
PathVx == <<"/", "v", "x", "1">>

\* /missing
PathMissing == <<"/", "m", "i", "s", "s", "i", "n", "g">>

\* /1/2
PathOneTwo == <<"/", "1", "/", "2">>

\* Hello, {name}!
MsgPlain == <<"H", "e", "l", "l", "o", ",", " ", "{", "n", "a", "m", "e", "}", "!">>

\* ok
MsgOk == <<"o", "k">>

\* {"message":"Hello, {name}!"}
MsgObject == <<"{", QUOTE, "m", "e", "s", "s", "a", "g", "e", QUOTE, ":", QUOTE, "H", "e", "l", "l", "o", ",", " ", "{", "n", "a", "m", "e", "}", "!", QUOTE, "}">>

\* {"message":"{a}-{b}"}
MsgTwoKeys == <<"{", QUOTE, "m", "e", "s", "s", "a", "g", "e", QUOTE, ":", QUOTE, "{", "a", "}", "-", "{", "b", "}", QUOTE, "}">>

\* ["{name}"]
MsgArray == <<"[", QUOTE, "{", "n", "a", "m", "e", "}", QUOTE, "]">>

\* {"a":1}
BodyObject == <<"{", QUOTE, "a", QUOTE, ":", "1", "}">>

\* [1,2]
BodyArray == <<"[", "1", ",", "2", "]">>

\* {"a":
BodyBroken == <<"{", QUOTE, "a", QUOTE, ":">>

\* get
LowerGet == <<"g", "e", "t">>

JSONHeaders == (ContentTypeKey :> ApplicationJSON)

HttpRequest(path, method, body, headers, ip) ==
  [path |-> path, method |-> method, body |-> body, headers |-> headers,
   query |-> EmptyMap, ip |-> ip]

\* the registry stays within MaxRoutes entries
RoomFor(path, cMethod) ==
  \/ RouteKey(path, ToUpper(cMethod)) \in DOMAIN routes
  \/ Cardinality(DOMAIN routes) < MaxRoutes

(***************************************************************************)
(* Spec: registration and lookup over overlapping paths and patterns       *)
(***************************************************************************)
RoutePaths == {PathHelloName, PathHelloWorld, PathDot, PathDup, PathTwo, PathParen}
RouteMethods == {GET, LowerGet, POST}
RouteMessages == {MsgPlain, MsgOk}
ReqPaths == {PathHelloWorld, PathDot, PathVx, PathParen, PathMissing, PathOneTwo}
ReqMethods == {GET, POST}

RegisterAny ==
  \E path \in RoutePaths, cMethod \in RouteMethods, message \in RouteMessages :
    RoomFor(path, cMethod) /\ RegisterRoute(path, cMethod, message)

RequestAny ==
  \E path \in ReqPaths, method \in ReqMethods :
    Request(HttpRequest(path, method, <<>>, EmptyMap, "c1"))

Next == RegisterAny \/ StartServer \/ RequestAny

Spec == Init /\ [][Next]_vars

(***************************************************************************)
(* SpecTemplate: templates and request bodies                              *)
(***************************************************************************)
TemplatePaths == {PathHelloName, PathTwo}
Templates == {MsgPlain, MsgObject, MsgTwoKeys, MsgArray}
Bodies == {<<>>, BodyObject, BodyArray, BodyBroken}
TemplateReqPaths == {PathHelloWorld, PathOneTwo, PathMissing}

RegisterTemplate ==
  \E path \in TemplatePaths, message \in Templates :
    RoomFor(path, GET) /\ RegisterRoute(path, GET, message)

RequestWithBody ==
  \E path \in TemplateReqPaths, body \in Bodies, headers \in {EmptyMap, JSONHeaders} :
    Request(HttpRequest(path, GET, body, headers, "c1"))

NextTemplate == RegisterTemplate \/ StartServer \/ RequestWithBody

SpecTemplate == Init /\ [][NextTemplate]_vars

(***************************************************************************)
(* SpecMW: the middleware pipeline                                         *)
(***************************************************************************)
RegisterMiddlewareAny ==
  \E name \in MiddlewareNames \cup {"auth"}, enabled \in BOOLEAN :
    /\ Len(middlewares) < MaxMiddlewares
    /\ RegisterMiddleware(name, enabled)

RegisterHello ==
  /\ routes = EmptyMap
  /\ RegisterRoute(PathHelloWorld, GET, MsgOk)

RequestMW ==
  \E path \in {PathHelloWorld, PathMissing}, method \in {GET, OPTIONS} :
    Request(HttpRequest(path, method, <<>>, EmptyMap, "c1"))

NextMW == RegisterMiddlewareAny \/ RegisterHello \/ StartServer \/ RequestMW

SpecMW == Init /\ [][NextMW]_vars

(***************************************************************************)
(* SpecRL: the rate limiter alone, two clients, the clock                  *)
(***************************************************************************)
ClockTimes == {0, windowSize}

RegisterRateLimiter ==
  /\ middlewares = <<>>
  /\ RegisterMiddleware("rate_limiter", TRUE)

\* the second client sends at most MaxOtherRequests requests
RequestsOf(ip) ==
  IF 1 \in DOMAIN passed /\ ip \in DOMAIN passed[1] THEN Len(passed[1][ip]) ELSE 0

RequestRL ==
  \/ Request(HttpRequest(PathMissing, GET, <<>>, EmptyMap, "c1"))
  \/ /\ RequestsOf("c2") < MaxOtherRequests
     /\ Request(HttpRequest(PathMissing, GET, <<>>, EmptyMap, "c2"))

TickAny == \E t \in ClockTimes : Tick(t)

NextRL == RegisterRateLimiter \/ StartServer \/ RequestRL \/ TickAny

SpecRL == Init /\ [][NextRL]_vars

(***************************************************************************)
(* SpecDebug: the debug flag, query parameters, headers and dependencies   *)
(***************************************************************************)
\* name
Name == <<"n", "a", "m", "e">>

\* ?name=bob
QueryName == (Name :> <<"b", "o", "b">>)

\* ?header:name=q
QueryHeaderName == ((HeaderPrefix \o Name) :> <<"q">>)

\* the header name: hdr beside the JSON Content-Type
NamedHeaders == (ContentTypeKey :> ApplicationJSON) @@ (Name :> <<"h", "d", "r">>)

\* the dependency name -> dep
DepValue == <<"d", "e", "p">>

RegisterDebugRoute ==
  \E path \in {PathHelloName, PathHelloWorld}, message \in {MsgPlain, MsgObject} :
    RoomFor(path, GET) /\ RegisterRoute(path, GET, message)

RegisterNameDependency ==
  /\ Name \notin DOMAIN dependencies
  /\ RegisterDependency(Name, DepValue)

SetDebugAny ==
  \E enabled \in BOOLEAN : enabled # includeDebugData /\ SetIncludeDebugData(enabled)

RequestDebug ==
  \E query \in {EmptyMap, QueryName, QueryHeaderName}, headers \in {EmptyMap, JSONHeaders, NamedHeaders},
     body \in {<<>>, BodyObject} :
    Request([path |-> PathHelloWorld, method |-> GET, body |-> body,
             headers |-> headers, query |-> query, ip |-> "c1"])

NextDebug ==
  RegisterDebugRoute \/ RegisterNameDependency \/ SetDebugAny \/ StartServer
    \/ RequestDebug

SpecDebug == Init /\ [][NextDebug]_vars

(***************************************************************************)
(* SpecLock: two registering and two looking-up callers                    *)
(***************************************************************************)
LockPaths == {PathHelloName, PathHelloWorld}

BeginRegisterAny ==
  \E t \in Writers, path \in LockPaths, message \in RouteMessages :
    BeginRegister(t, path, GET, message)

WriterStep ==
  \E t \in Writers : Lock(t) \/ WriteFirstFields(t) \/ WriteLastFields(t) \/ Unlock(t)

RLockAny == \E t \in Readers : RLock(t, PathHelloWorld, GET)

ReaderStep == \E t \in Readers : Lookup(t) \/ RUnlock(t)

NextLock == BeginRegisterAny \/ WriterStep \/ RLockAny \/ ReaderStep

SpecLock == Init /\ [][NextLock]_vars

\* SpecHint: requests for GET /hello/world that miss and get their hint while
\* routes of that path are being registered
HintMethods == {GET, POST}

BeginRegisterHinted ==
  \E t \in Writers, cMethod \in HintMethods :
    BeginRegister(t, PathHelloWorld, cMethod, MsgOk)

HintStep == \E t \in Readers : HintRLock(t) \/ HintScan(t) \/ HintRUnlock(t)

NextHint == BeginRegisterHinted \/ WriterStep \/ RLockAny \/ ReaderStep \/ HintStep

SpecHint == Init /\ [][NextHint]_vars

(***************************************************************************)
(* SpecShutdown: StartServer from the call to the return                   *)
(***************************************************************************)
ListenAndServeAny == \E ok \in BOOLEAN : ListenAndServe(ok)

BeginRequestAny == \E id \in 1..MaxInFlight : BeginRequest(id)

FinishRequestAny == \E id \in 1..MaxInFlight : FinishRequest(id)

NextShutdown ==
  \/ StartServer
  \/ ListenAndServeAny
  \/ BeginRequestAny
  \/ FinishRequestAny
  \/ Signal
  \/ ReceiveStop
  \/ CloseListeners
  \/ ShutdownReturns

SpecShutdown == Init /\ [][NextShutdown]_vars

(***************************************************************************)
(* SpecNested: object templates with the placeholder at every depth        *)
(***************************************************************************)
\* {"a":{"b":"{name}"}}
MsgNestedObject == <<"{", QUOTE, "a", QUOTE, ":", "{", QUOTE, "b", QUOTE, ":", QUOTE, "{", "n", "a", "m", "e", "}", QUOTE, "}", "}">>

\* {"a":["{name}"]}
MsgInArray == <<"{", QUOTE, "a", QUOTE, ":", "[", QUOTE, "{", "n", "a", "m", "e", "}", QUOTE, "]", "}">>

\* {"a":[{"b":"{name}"}]}
MsgObjectInArray == <<"{", QUOTE, "a", QUOTE, ":", "[", "{", QUOTE, "b", QUOTE, ":", QUOTE, "{", "n", "a", "m", "e", "}", QUOTE, "}", "]", "}">>

\* {"a":[["{name}"]]}
MsgArrayInArray == <<"{", QUOTE, "a", QUOTE, ":", "[", "[", QUOTE, "{", "n", "a", "m", "e", "}", QUOTE, "]", "]", "}">>

NestedTemplates ==
  {MsgObject, MsgNestedObject, MsgInArray, MsgObjectInArray, MsgArrayInArray}

RegisterNested ==
  \E path \in {PathHelloName, PathHelloWorld}, message \in NestedTemplates :
    RoomFor(path, GET) /\ RegisterRoute(path, GET, message)

RequestNested == Request(HttpRequest(PathHelloWorld, GET, <<>>, EmptyMap, "c1"))

NextNested == RegisterNested \/ StartServer \/ RequestNested

SpecNested == Init /\ [][NextNested]_vars

(***************************************************************************)
(* SpecPlain: plain-text templates with two placeholders, and path values  *)
(* that are themselves placeholders                                        *)
(***************************************************************************)
\* {a}{b}
MsgAB == <<"{", "a", "}", "{", "b", "}">>

\* {b}, then {a}
MsgBThenA == <<"{", "b", "}", ",", " ", "t", "h", "e", "n", " ", "{", "a", "}">>

\* /{b}/x
PathBraceBX == <<"/", "{", "b", "}", "/", "x">>

\* /x/{a}
PathXBraceA == <<"/", "x", "/", "{", "a", "}">>

PlainTemplates == {MsgAB, MsgBThenA, MsgOk}
PlainReqPaths == {PathOneTwo, PathBraceBX, PathXBraceA}

RegisterPlain ==
  \E cMethod \in {GET, POST}, message \in PlainTemplates :
    RoomFor(PathTwo, cMethod) /\ RegisterRoute(PathTwo, cMethod, message)

RequestPlain ==
  \E path \in PlainReqPaths, method \in {GET, POST} :
    Request(HttpRequest(path, method, <<>>, EmptyMap, "c1"))

NextPlain == RegisterPlain \/ StartServer \/ RequestPlain

SpecPlain == Init /\ [][NextPlain]_vars

(***************************************************************************)
(* SpecLiteral: a declared path with a dot in its literal part             *)
(***************************************************************************)
\* /a.b/{id}
PathDotId == <<"/", "a", ".", "b", "/", "{", "i", "d", "}">>

\* /a.b/7
PathDotSeven == <<"/", "a", ".", "b", "/", "7">>

\* /axb/7
PathXSeven == <<"/", "a", "x", "b", "/", "7">>

\* /a/b/7
PathSlashSeven == <<"/", "a", "/", "b", "/", "7">>

LiteralReqPaths == {PathDotSeven, PathXSeven, PathSlashSeven, PathHelloWorld}

RegisterLiteral ==
  \E path \in {PathDotId, PathHelloName}, cMethod \in {GET, POST},
     message \in RouteMessages :
    RoomFor(path, cMethod) /\ RegisterRoute(path, cMethod, message)

RequestLiteral ==
  \E path \in LiteralReqPaths, method \in {GET, POST} :
    Request(HttpRequest(path, method, <<>>, EmptyMap, "c1"))

NextLiteral == RegisterLiteral \/ StartServer \/ RequestLiteral

SpecLiteral == Init /\ [][NextLiteral]_vars

(***************************************************************************)
(* SpecDocs: routes registered on the documentation paths                  *)
(***************************************************************************)
\* /swagger/ui
PathSwaggerUI == <<"/", "s", "w", "a", "g", "g", "e", "r", "/", "u", "i">>

\* /swaggerx
PathSwaggerish == <<"/", "s", "w", "a", "g", "g", "e", "r", "x">>

\* /{p}
PathAny == <<"/", "{", "p", "}">>

DocsRoutePaths == {OpenAPIPath, PathSwaggerUI, PathSwaggerish, PathAny, PathHelloWorld}
DocsReqPaths == {OpenAPIPath, PathSwaggerUI, PathSwaggerish, PathHelloWorld}

RegisterDocs ==
  \E path \in DocsRoutePaths, message \in RouteMessages :
    RoomFor(path, GET) /\ RegisterRoute(path, GET, message)

RequestDocs ==
  \E path \in DocsReqPaths :
    Request(HttpRequest(path, GET, <<>>, EmptyMap, "c1"))

NextDocs == RegisterDocs \/ StartServer \/ RequestDocs

SpecDocs == Init /\ [][NextDocs]_vars

(***************************************************************************)
(* SpecRLConc: two requests of one client in the rate limiter at once      *)
(***************************************************************************)
ArriveLimited == \E h \in Handlers : Arrive(h, "c1", PathMissing)

LimiterStep ==
  \E h \in Handlers :
    LockMu(h) \/ CleanUp(h) \/ Reject(h) \/ AppendTime(h) \/ PassOn(h)

HandlerStep == \E h \in Handlers : Dispatch(h) \/ Return(h)

\* the clock moves on once the client has used up its window, the case in
\* which the clean-up decides
ClockWhenFull ==
  /\ 1 \in DOMAIN limiters
  /\ LimitReached(TimesOf(limiters[1], "c1"))
  /\ \E t \in ClockTimes : Clock(t)

NextRLConc ==
  RegisterRateLimiter \/ StartServer \/ ArriveLimited \/ LimiterStep \/ HandlerStep
    \/ ClockWhenFull

SpecRLConc == Init /\ [][NextRLConc]_vars

\* the debug flag set while requests are being served: a route whose text
\* gets the envelope, a route whose text is a JSON object, an unknown path
FlagReqPaths == {PathHelloWorld, PathHelloName, PathMissing}

RegisterFlagRoute ==
  \E message \in {MsgPlain, MsgObject} :
    RoomFor(PathHelloName, GET) /\ RegisterRoute(PathHelloName, GET, message)

ArriveAny == \E h \in Handlers, path \in FlagReqPaths : Arrive(h, "c1", path)

ServeStep == \E h \in Handlers : Dispatch(h) \/ ReadFlag(h) \/ Return(h)

SetDebugStep == (\E enabled \in BOOLEAN : BeginSetDebug(enabled)) \/ WriteFlag

NextFlag == RegisterFlagRoute \/ StartServer \/ ArriveAny \/ ServeStep \/ SetDebugStep

SpecFlag == Init /\ [][NextFlag]_vars

\* every call that takes a lock, beside two requests
BeginAny == \E g \in Goroutines, op \in OpNames : Begin(g, op)

WriterWaitsAny == \E g \in Goroutines : WriterWaits(g)
WriterEntersAny == \E g \in Goroutines : WriterEnters(g)
WriterLeavesAny == \E g \in Goroutines : WriterLeaves(g)
ReaderEntersAny == \E g \in Goroutines : ReaderEnters(g)
ReaderWaitsAny == \E g \in Goroutines : ReaderWaits(g)
ReaderWakesAny == \E g \in Goroutines : ReaderWakes(g)
ReaderLeavesAny == \E g \in Goroutines : ReaderLeaves(g)
MutexEntersAny == \E g \in Goroutines : MutexEnters(g)
MutexLeavesAny == \E g \in Goroutines : MutexLeaves(g)
BodyAny == \E g \in Goroutines : Body(g)

NextHeld ==
  \/ BeginAny
  \/ WriterWaitsAny \/ WriterEntersAny \/ WriterLeavesAny
  \/ ReaderEntersAny \/ ReaderWaitsAny \/ ReaderWakesAny \/ ReaderLeavesAny
  \/ MutexEntersAny \/ MutexLeavesAny \/ BodyAny

SpecHeld == Init /\ [][NextHeld]_vars

\* the scheduler runs every goroutine that can take a step; a goroutine
\* waiting for a sync.Mutex gets it if it is free again and again (a waiter
\* of more than a millisecond is handed the mutex directly)
FairHeld ==
  \A g \in Goroutines : WF_vars(Step(g)) /\ SF_vars(BlockingStep(g))

SpecHeldFair == SpecHeld /\ FairHeld

(***************************************************************************)
(* SpecRender: JSON templates that are not objects                         *)
(***************************************************************************)
\* /{"a":1}
PathQuoted == <<"/", "{", QUOTE, "a", QUOTE, ":", "1", "}">>

\* /x
PathX == <<"/", "x">>

\* /7
PathSeven == <<"/", "7">>

\* [{"a":1}]
MsgArrayObject == <<"[", "{", QUOTE, "a", QUOTE, ":", "1", "}", "]">>

RenderPaths == {PathQuoted, PathHelloName}
RenderTemplates == {MsgArrayObject, MsgObject, MsgArray, MsgPlain}
RenderReqPaths == {PathX, PathSeven, PathHelloWorld}

RegisterRendered ==
  \E path \in RenderPaths, message \in RenderTemplates :
    RoomFor(path, GET) /\ RegisterRoute(path, GET, message)

RequestRendered ==
  \E path \in RenderReqPaths :
    Request(HttpRequest(path, GET, <<>>, EmptyMap, "c1"))

NextRender == RegisterRendered \/ StartServer \/ RequestRendered

SpecRender == Init /\ [][NextRender]_vars

(***************************************************************************)
(* SpecConfig: SetServerConfig calls                                       *)
(***************************************************************************)
\* 1500
SomeMillis == Word(1500)

\* 2^62
HugeMillis == <<0, 0, 0, 0, 0, 0, 0, 64>>

\* the uintptr of -1
MinusOne == <<255, 255, 255, 255, 255, 255, 255, 255>>

\* :9090
Port9090 == <<":", "9", "0", "9", "0">>

SetServerConfigAny ==
  \E cReadTimeout \in {ZeroWord, SomeMillis, HugeMillis, MinusOne},
     cWriteTimeout \in {ZeroWord, SomeMillis},
     cIdleTimeout \in {ZeroWord, Word(60000)},
     cMaxBodySize \in {ZeroWord, Word(1024), MinusOne},
     cConcurrency \in {ZeroWord, Word(16)},
     cPort \in {NilPtr, CString(<<>>), CString(Port9090)} :
    SetServerConfig(cReadTimeout, cWriteTimeout, cIdleTimeout, cMaxBodySize,
                    cConcurrency, cPort)

NextConfig == SetServerConfigAny

SpecConfig == Init /\ [][NextConfig]_vars

(***************************************************************************)
(* SpecRegistry: registrations with and without parameter metadata         *)
(***************************************************************************)
\* /a
PathA == <<"/", "a">>

\* /aG
PathAG == <<"/", "a", "G">>

\* ET
ET == <<"E", "T">>

\* [{"name":"id","required":true}]
ParamsId == <<"[", "{", QUOTE, "n", "a", "m", "e", QUOTE, ":", QUOTE, "i", "d", QUOTE, ",", QUOTE, "r", "e", "q", "u", "i", "r", "e", "d", QUOTE, ":", "t", "r", "u", "e", "}", "]">>

RegistryPaths == {PathA, PathAG}
RegistryMethods == {GET, LowerGet, ET}
ParamsPayloads == {ParamsId, BodyBroken, BodyObject}

RegisterIdentity ==
  \E path \in RegistryPaths, cMethod \in RegistryMethods, message \in RouteMessages :
    RoomFor(path, cMethod) /\ RegisterRoute(path, cMethod, message)

RegisterWithParamsAny ==
  \E path \in RegistryPaths, cMethod \in RegistryMethods, message \in RouteMessages,
     paramsJSON \in ParamsPayloads :
    RoomFor(path, cMethod) /\ RegisterRouteWithParams(path, cMethod, message, paramsJSON)

NextRegistry == RegisterIdentity \/ RegisterWithParamsAny

SpecRegistry == Init /\ [][NextRegistry]_vars

(***************************************************************************)
(* Properties                                                              *)
(***************************************************************************)
Handled == resp.status # 0

HandlerRan == \E i \in DOMAIN trace : trace[i].ev = "handler"

\* the lookup for request r misses
Missed(r) == \A f \in findMatchingRoute(r.path, r.method) : ~f.exists

\* C1: a request whose (path, method) is the path and method of a route in
\* the registry gets exactly that route, with no path parameters and without
\* pattern scanning, also when a pattern of the same method accepts the
\* path; the response is rendered from that route's template
ExactMatchPreferred ==
  /\ \A path \in ReqPaths, method \in ReqMethods :
       \A k \in DOMAIN routes :
         (routes[k].Path = path /\ routes[k].Method = method) =>
           findMatchingRoute(path, method) =
             {[route |-> routes[k], pathParams |-> EmptyMap, exists |-> TRUE,
               scanned |-> FALSE]}
  /\ \A k \in DOMAIN routes :
       (Handled /\ routes[k].Path = req.path /\ routes[k].Method = req.method) =>
         /\ resp.status = StatusOK
         /\ resp.body.kind = "ApiResponse"
         /\ resp.body.Message = routes[k].Message
         /\ resp.body.Data = [kind |-> "none"]

\* GET /hello/world answered from the route registered as /hello/world while
\* GET /hello/{name}, with another template, is registered too
ExactMatchPreferredWitness ==
  /\ Handled
  /\ req.path = PathHelloWorld /\ req.method = GET
  /\ RouteKey(PathHelloWorld, GET) \in DOMAIN routes
  /\ RouteKey(PathHelloName, GET) \in DOMAIN routes
  /\ routes[RouteKey(PathHelloWorld, GET)].Message = MsgOk
  /\ routes[RouteKey(PathHelloName, GET)].Message = MsgPlain
  /\ ScanHits(PathHelloWorld, GET) # {}
  /\ resp.body.kind = "ApiResponse" /\ resp.body.Message = MsgOk

\* the "/"-separated components of a path
RECURSIVE Components(_)
Components(s) ==
  IF \A i \in DOMAIN s : s[i] # "/" THEN <<s>>
  ELSE LET cut == CHOOSE i \in DOMAIN s : s[i] = "/" /\ \A j \in 1..(i - 1) : s[j] # "/"
       IN <<SubSeq(s, 1, cut - 1)>> \o Components(SubSeq(s, cut + 1, Len(s)))

IsPlaceholderComponent(c) ==
  /\ Len(c) >= 3 /\ c[1] = "{" /\ c[Len(c)] = "}"
  /\ \A i \in 2..(Len(c) - 1) : ~IsBrace(c[i])

\* a declared path made of literal components and whole-component placeholders
SegmentPattern(path) ==
  \A c \in Range(Components(path)) :
    \/ IsPlaceholderComponent(c)
    \/ \A i \in DOMAIN c : ~IsBrace(c[i]) /\ c[i] # "."

\* the components of the declared path that are the placeholder of name
PlaceholderPositions(path, name) ==
  {j \in DOMAIN Components(path) : Components(path)[j] = Placeholder(name)}

DeclaredNames(path) ==
  {SubSeq(c, 2, Len(c) - 1) : c \in {d \in Range(Components(path)) : IsPlaceholderComponent(d)}}

\* C2: a route returned by pattern scan comes with a mapping whose keys are
\* exactly the placeholder names declared in its path, each bound to the
\* component of the request path at the position of that placeholder, the
\* last position when the name is declared more than once
ParamsBoundBySegment ==
  /\ \A path \in ReqPaths, method \in ReqMethods :
       \A f \in findMatchingRoute(path, method) :
         (f.exists /\ f.scanned /\ SegmentPattern(f.route.Path)) =>
           /\ DOMAIN f.pathParams = DeclaredNames(f.route.Path)
           /\ \A name \in DOMAIN f.pathParams :
                f.pathParams[name] =
                  Components(path)[Max(PlaceholderPositions(f.route.Path, name))]
  /\ (Handled /\ resp.status = StatusOK /\ resp.body.kind = "ApiResponse"
        /\ resp.body.Data.kind = "pathParams") =>
       \E f \in findMatchingRoute(req.path, req.method) :
         f.scanned /\ resp.body.Data.params = f.pathParams

\* GET /1/2 served by /{a}/{a}: a is bound to 2, and by /{a}/{b}: a to 1, b to 2
ParamsBoundBySegmentWitness ==
  /\ Handled /\ req.path = PathOneTwo /\ resp.status = StatusOK
  /\ RouteKey(PathDup, req.method) \in DOMAIN routes
  /\ resp.body.kind = "ApiResponse"
  /\ resp.body.Data = [kind |-> "pathParams", params |-> (<<"a">> :> <<"2">>)]

\* a route whose declared path is the request path or whose pattern accepts it
PathAccepted(rt, path) ==
  \/ rt.Path = path
  \/ (rt.PathRegex # NilRegex /\ FindStringSubmatch(rt.PathRegex, path) # <<>>)

\* the text after "Route not found for METHOD PATH"
HintText(r, text) ==
  SubSeq(text, Len(RouteNotFoundFor \o r.method \o <<" ">> \o r.path) + 1, Len(text))

HintMethodsDiffer ==
  (Handled /\ resp.status = StatusNotFound) =>
    \A i \in DOMAIN resp.body.supportedMethods :
      resp.body.supportedMethods[i] # req.method

\* a present placeholder is left in a string-valued field of a JSON object
RECURSIVE PlaceholderLeft(_, _)
PlaceholderLeft(val, pathParams) ==
  /\ val.k = "obj"
  /\ \E key \in DOMAIN val.v :
       \/ /\ val.v[key].k = "str"
          /\ \E name \in DOMAIN pathParams : Contains(val.v[key].v, Placeholder(name))
       \/ PlaceholderLeft(val.v[key], pathParams)

\* {"message":"Hello, world!"}
HelloWorldBody ==
  <<"{", QUOTE, "m", "e", "s", "s", "a", "g", "e", QUOTE, ":", QUOTE, "H", "e", "l", "l",
    "o", ",", " ", "w", "o", "r", "l", "d", "!", QUOTE, "}">>

\* C3 (as claimed): the body rendered from a JSON object template has, in
\* every string-valued field, every placeholder of a present path parameter
\* replaced, also when one string holds placeholders of several parameters;
\* GET /hello/{name} with {"message":"Hello, {name}!"} renders
\* {"message":"Hello, world!"} for /hello/world
AllPlaceholdersReplaced ==
  \A f \in findMatchingRoute(req.path, req.method) :
    (/\ Handled /\ resp.status = StatusOK
     /\ Cardinality(findMatchingRoute(req.path, req.method)) = 1
     /\ f.exists /\ ParseJSON(f.route.Message).ok
     /\ ParseJSON(f.route.Message).val.k = "obj") =>
      /\ resp.body.kind = "raw"
      /\ ParseJSON(resp.body.text).ok
      /\ ~PlaceholderLeft(ParseJSON(resp.body.text).val, f.pathParams)
      /\ (f.route.Path = PathHelloName /\ f.route.Message = MsgObject
            /\ req.path = PathHelloWorld) => resp.body.text = HelloWorldBody

\* C9 (as claimed): a 200 response carries the rendered text itself exactly
\* when that text is valid JSON of any kind, and the envelope otherwise
VerbatimIffValidJSON ==
  (Handled /\ resp.status = StatusOK) =>
    \/ resp.body.kind = "raw" /\ ValidJSON(resp.body.text)
    \/ resp.body.kind = "ApiResponse" /\ ~ValidJSON(resp.body.Message)

\* C10 (as claimed): a request that hits a route with a non-empty body and a
\* JSON Content-Type gets 400 exactly when the body is not valid JSON; a
\* request that misses every route gets 404
BadRequestIffUnparsable ==
  /\ (Handled /\ ~Missed(req) /\ Len(req.body) > 0
        /\ Contains(ContentTypeOf(req), ApplicationJSON)) =>
       (resp.status = StatusBadRequest <=> ~ValidJSON(req.body))
  /\ (Handled /\ Missed(req)) => resp.status = StatusNotFound

\* the innermost wrapper entered for the last request (0: none)
Innermost ==
  IF \E j \in DOMAIN trace : trace[j].ev = "enter"
  THEN Max({trace[j].layer : j \in {x \in DOMAIN trace : trace[x].ev = "enter"}})
  ELSE 0

FirstCors ==
  CHOOSE i \in DOMAIN server.handler :
    /\ server.handler[i] = "cors"
    /\ \A j \in 1..(i - 1) : server.handler[j] # "cors"

\* C5 (as claimed): with the CORS middleware in the pipeline every OPTIONS
\* request gets 204 and the terminal handler is not invoked
OptionsAlways204 ==
  (Handled /\ "cors" \in Range(server.handler) /\ req.method = OPTIONS) =>
    resp.status = StatusNoContent /\ ~HandlerRan

\* C5 (amended): with the CORS middleware in the pipeline built by
\* StartServer the terminal handler is never invoked for an OPTIONS request,
\* and the request gets 204 unless a rate limiter registered before the CORS
\* middleware, holding maxReqs timestamps of the client, rejects it with 429
OptionsShortCircuited ==
  (Handled /\ "cors" \in Range(server.handler) /\ req.method = OPTIONS) =>
    /\ ~HandlerRan
    /\ \/ resp.status = StatusNoContent /\ Innermost = FirstCors /\ resp.cors
       \/ /\ resp.status = StatusTooManyRequests
          /\ Innermost < FirstCors
          /\ server.handler[Innermost] = "rate_limiter"
          /\ Len(TimesOf(limiters[Innermost], req.ip)) >= maxReqs

\* OPTIONS on a registered path, CORS registered after logging
OptionsShortCircuitedWitness ==
  /\ Handled /\ req.method = OPTIONS /\ req.path = PathHelloWorld
  /\ RouteKey(PathHelloWorld, GET) \in DOMAIN routes
  /\ server.handler = <<"logging", "cors">>
  /\ resp.status = StatusNoContent
  /\ trace = <<Ev("enter", 1), Ev("enter", 2), Ev("exit", 2), Ev("exit", 1)>>

\* the wrapper at layer i returns without calling the handler it wraps
ShortCircuits(i) ==
  \/ server.handler[i] = "cors" /\ req.method = OPTIONS
  \/ server.handler[i] = "rate_limiter" /\ resp.status = StatusTooManyRequests
       /\ Innermost = i

PriorPassed ==
  LET hist == TimesOf(passed[1], req.ip)
  IN IF resp.status # StatusTooManyRequests /\ Len(hist) > 0
     THEN SubSeq(hist, 1, Len(hist) - 1) ELSE hist

PassedInWindow ==
  Cardinality({j \in DOMAIN PriorPassed : now - PriorPassed[j] < windowSize})

\* C4: with the rate limiter in the pipeline a request is rejected with 429,
\* the wrapped handler not invoked, when maxReqs requests of its client were
\* passed on less than windowSize seconds before it, and it is passed on
\* otherwise, in particular once windowSize seconds have elapsed since those
\* requests, whatever was rejected in between
RateLimitWindow ==
  (Handled /\ server.handler = <<"rate_limiter">>) =>
    /\ PassedInWindow >= maxReqs =>
         resp.status = StatusTooManyRequests /\ ~HandlerRan
    /\ PassedInWindow < maxReqs =>
         /\ resp.status # StatusTooManyRequests /\ HandlerRan
         /\ Len(TimesOf(passed[1], req.ip)) > 0
         /\ TimesOf(passed[1], req.ip)[Len(TimesOf(passed[1], req.ip))] = now
    /\ Len(TimesOf(limiters[1], req.ip)) <= maxReqs

\* the first client, 100 requests passed on at time 0, is served again at 60
RateLimitWindowWitness ==
  /\ Handled /\ req.ip = "c1" /\ now = windowSize
  /\ server.handler = <<"rate_limiter">>
  /\ resp.status # StatusTooManyRequests /\ HandlerRan
  /\ Len(TimesOf(passed[1], "c1")) = maxReqs + 1
  /\ TimesOf(passed[1], "c1")[maxReqs] = 0

\* the bodies the engine writes itself: the rendered text, the two envelopes
\* and the rate limiter's rejection
EngineBodies == {"raw", "ApiResponse", "ErrorResponse", "raw429"}

\* C11 (as claimed): every response the engine produces, 200 success, 404
\* route not found, 400 invalid body and the 429 rejection of the rate
\* limiter, has Content-Type application/json
AllResponsesJSON ==
  (/\ Handled
   /\ resp.status \in {StatusOK, StatusNotFound, StatusBadRequest, StatusTooManyRequests}
   /\ resp.body.kind \in EngineBodies) =>
    resp.ctype = "application/json"

\* the text rendered from the template, in either form of a 200 response
RenderedText ==
  IF resp.body.kind = "raw" THEN resp.body.text ELSE resp.body.Message

\* the request path component at the (last) placeholder of name in the
\* declared path
ValueInPath(declared, path, name) ==
  Components(path)[Max(PlaceholderPositions(declared, name))]

\* what the lookup f extracted, told from the declared path and the request path
PathParamsOf(f, path) ==
  IF f.scanned
  THEN [name \in DeclaredNames(f.route.Path) |-> ValueInPath(f.route.Path, path, name)]
  ELSE EmptyMap

\* the template of f with the placeholder of its one declared name replaced
\* by the value in the path and nothing else replaced
RenderedFromPath(f, path) ==
  IF PathParamsOf(f, path) = EmptyMap THEN f.route.Message
  ELSE LET name == CHOOSE n \in DOMAIN PathParamsOf(f, path) : TRUE
       IN ReplaceAll(f.route.Message, Placeholder(name), PathParamsOf(f, path)[name])

\* a 200 response rendered from the one route the request hits, a route
\* that declares at most one placeholder
RenderedHit(f) ==
  /\ Handled /\ resp.status = StatusOK
  /\ resp.body.kind \in {"raw", "ApiResponse"}
  /\ f.exists
  /\ Cardinality(DeclaredNames(f.route.Path)) <= 1

\* the key under which parseRequestParams files header h
HeaderParam(h) == HeaderPrefix \o ToLower(h)

\* path parameters, then every query parameter over them, then every header
\* under its namespaced key
MergedParams(pp, r) ==
  [k \in DOMAIN pp \cup DOMAIN r.query \cup {HeaderParam(h) : h \in DOMAIN r.headers} |->
     IF \E h \in DOMAIN r.headers : HeaderParam(h) = k
     THEN r.headers[CHOOSE h \in DOMAIN r.headers : HeaderParam(h) = k]
     ELSE IF k \in DOMAIN r.query THEN r.query[k] ELSE pp[k]]

\* the request carries a JSON body that decodes to an object
HasParsedBody(r) ==
  /\ Len(r.body) > 0
  /\ Contains(ContentTypeOf(r), ApplicationJSON)
  /\ ParseJSON(r.body).ok /\ ParseJSON(r.body).val.k = "obj"

\* the data field the claim describes for the hit f of request r
DataFor(f, r) ==
  IF includeDebugData
  THEN IF DOMAIN MergedParams(PathParamsOf(f, r.path), r) # {} \/ HasParsedBody(r)
       THEN [kind |-> "debug",
             hasParams |-> DOMAIN MergedParams(PathParamsOf(f, r.path), r) # {},
             params |-> MergedParams(PathParamsOf(f, r.path), r),
             hasBody |-> HasParsedBody(r),
             body |-> IF HasParsedBody(r) THEN ParseJSON(r.body).val ELSE NullVal]
       ELSE [kind |-> "none"]
  ELSE IF PathParamsOf(f, r.path) # EmptyMap
       THEN [kind |-> "pathParams", params |-> PathParamsOf(f, r.path)]
       ELSE [kind |-> "none"]

\* the data field of the response: the envelope has one when its Data is
\* set, the rendered text returned as the body has none added to it
DataOfResponse ==
  IF resp.body.kind = "ApiResponse" THEN resp.body.Data ELSE [kind |-> "none"]

\* C12 (as claimed): every 200 response to a request that hits a route
\* carries the data field the debug flag asks for, whatever the template is:
\* with the flag on the resolved parameters (when there are any) and the
\* parsed request body (when there is one), with the flag off exactly the
\* path parameters when there are any and no data field otherwise
DataFollowsFlag ==
  \A f \in findMatchingRoute(req.path, req.method) :
    RenderedHit(f) => DataOfResponse = DataFor(f, req)

\* C12 (amended): a 200 response that wraps the rendered text in the
\* ApiResponse envelope carries the data field the debug flag asks for; a
\* 200 response that returns the rendered text itself is that text alone,
\* with no data field added, whatever the flag and the parameters are
DataInEnvelopeOnly ==
  \A f \in findMatchingRoute(req.path, req.method) :
    RenderedHit(f) =>
      /\ resp.body.kind = "ApiResponse" => resp.body.Data = DataFor(f, req)
      /\ resp.body.kind = "raw" =>
           /\ DOMAIN resp.body = {"kind", "text"}
           /\ resp.body.text = RenderedFromPath(f, req.path)

\* the flag on, GET /hello/world?name=bob with a JSON body served by
\* /hello/{name}: data holds the merged parameters and the body
DataInEnvelopeOnlyWitness ==
  /\ Handled /\ resp.status = StatusOK /\ includeDebugData
  /\ DOMAIN routes = {RouteKey(PathHelloName, GET)}
  /\ req.query = QueryName /\ req.headers = NamedHeaders /\ req.body = BodyObject
  /\ resp.body.kind = "ApiResponse"
  /\ resp.body.Data.kind = "debug"
  /\ resp.body.Data.params[Name] = QueryName[Name]
  /\ resp.body.Data.hasBody

\* C13: the text rendered for a request is the route's template with the
\* placeholder of a declared name replaced by the value the path has for
\* it; a query parameter, a header or a dependency of that name changes
\* nothing, also when the query parameter has the name of a path parameter
OnlyPathParamsRendered ==
  \A f \in findMatchingRoute(req.path, req.method) :
    RenderedHit(f) => RenderedText = RenderedFromPath(f, req.path)

\* Hello, world!
HelloWorldText ==
  <<"H", "e", "l", "l", "o", ",", " ", "w", "o", "r", "l", "d", "!">>

\* GET /hello/world?name=bob with a header and a dependency called name,
\* served by /hello/{name}: the text says world
OnlyPathParamsRenderedWitness ==
  /\ Handled /\ resp.status = StatusOK
  /\ DOMAIN routes = {RouteKey(PathHelloName, GET)}
  /\ routes[RouteKey(PathHelloName, GET)].Message = MsgPlain
  /\ req.query = QueryName /\ req.headers = NamedHeaders
  /\ Name \in DOMAIN dependencies
  /\ resp.body.kind = "ApiResponse" /\ resp.body.Message = HelloWorldText

\* the identity of a route
IdentityOf(rt) == <<rt.Path, rt.Method>>

\* the identity a registration call names
CalledIdentity(c) == <<c.path, ToUpper(c.method)>>

\* a call that registers a route
Registers(c) ==
  \/ c.op = "RegisterRoute"
  \/ c.op = "RegisterRouteWithParams" /\ ~UnmarshalParams(c.paramsJSON).err

\* C14 (as claimed): after every registration the registry holds one route
\* per identity (path, upper-cased method), for the identity just registered
\* the route of that registration, and the entry of every other identity is
\* still there, unaltered
IdentitiesCoexist ==
  [][Registers(call') =>
       /\ \A k1, k2 \in DOMAIN routes' :
            IdentityOf(routes'[k1]) = IdentityOf(routes'[k2]) => k1 = k2
       /\ \E k \in DOMAIN routes' :
            /\ IdentityOf(routes'[k]) = CalledIdentity(call')
            /\ routes'[k].Message = call'.message
       /\ \A k \in DOMAIN routes :
            IdentityOf(routes[k]) # CalledIdentity(call') =>
              \E k2 \in DOMAIN routes' : routes'[k2] = routes[k]]_vars

\* C18: a RegisterRouteWithParams call whose payload is not parseable JSON
\* leaves the registry as it was
BadParamsRegisterNothing ==
  [][(call'.op = "RegisterRouteWithParams" /\ ~ValidJSON(call'.paramsJSON)) =>
       routes' = routes]_vars

\* RegisterRouteWithParams with the payload {"a": for an identity that is
\* registered with another template: the old template is still there
BadParamsRegisterNothingWitness ==
  /\ call.op = "RegisterRouteWithParams"
  /\ call.paramsJSON = BodyBroken
  /\ RouteKey(call.path, ToUpper(call.method)) \in DOMAIN routes
  /\ routes[RouteKey(call.path, ToUpper(call.method))].Message # call.message
  /\ routes[RouteKey(call.path, ToUpper(call.method))].Parameters # <<>>

\* C19: a RegisterMiddleware call with a name other than logging, cors,
\* rate_limiter, or with enabled false, leaves the middleware sequence as it
\* was; any other call appends the named middleware at the end and keeps the
\* entries before it, in their order
MiddlewareAppendOnly ==
  [][call'.op = "RegisterMiddleware" =>
       IF call'.enabled /\ call'.name \in {"logging", "cors", "rate_limiter"}
       THEN /\ Len(middlewares') = Len(middlewares) + 1
            /\ SubSeq(middlewares', 1, Len(middlewares)) = middlewares
            /\ middlewares'[Len(middlewares')] = call'.name
       ELSE middlewares' = middlewares]_vars

\* RegisterMiddleware("auth", 1) after logging was registered
MiddlewareAppendOnlyWitness ==
  /\ call = [op |-> "RegisterMiddleware", name |-> "auth", enabled |-> TRUE]
  /\ middlewares = <<"logging">>

\* the quotient and the remainder of the unsigned word w by k, from the most
\* significant byte down
RECURSIVE DivFrom(_, _, _, _)
DivFrom(w, k, i, rem) ==
  IF i < 1 THEN <<rem>>
  ELSE DivFrom(w, k, i - 1, (rem * 256 + w[i]) % k) \o <<(rem * 256 + w[i]) \div k>>

\* the duration d is exactly ms milliseconds: d is not negative and d divided
\* by the nanoseconds of a millisecond gives ms with no remainder
IsMillisecondsOf(d, ms) ==
  d[WordBytes] < 128 /\ DivFrom(d, 1000000, WordBytes, 0) = <<0>> \o ms

\* a field takes the value given when that is positive and keeps its old
\* value otherwise
TakesIfPositive(old, new, given) ==
  IF IsPositive(given) THEN new = given ELSE new = old

\* C17 (as claimed): over every SetServerConfig call each timeout becomes the
\* given number of milliseconds when that is positive and stays otherwise,
\* the body size and the concurrency become the given value when positive
\* and stay otherwise, and the port becomes the given one when it is a
\* non-empty string and stays otherwise
ConfigFieldwise ==
  [][call'.op = "SetServerConfig" =>
       /\ IF IsPositive(call'.readTimeout)
          THEN IsMillisecondsOf(serverConfig'.ReadTimeout, call'.readTimeout)
          ELSE serverConfig'.ReadTimeout = serverConfig.ReadTimeout
       /\ IF IsPositive(call'.writeTimeout)
          THEN IsMillisecondsOf(serverConfig'.WriteTimeout, call'.writeTimeout)
          ELSE serverConfig'.WriteTimeout = serverConfig.WriteTimeout
       /\ IF IsPositive(call'.idleTimeout)
          THEN IsMillisecondsOf(serverConfig'.IdleTimeout, call'.idleTimeout)
          ELSE serverConfig'.IdleTimeout = serverConfig.IdleTimeout
       /\ TakesIfPositive(serverConfig.MaxRequestBodySize,
                          serverConfig'.MaxRequestBodySize, call'.maxBodySize)
       /\ TakesIfPositive(serverConfig.Concurrency, serverConfig'.Concurrency,
                          call'.concurrency)
       /\ serverConfig'.Port =
            IF ~call'.port.nil /\ call'.port.str # <<>> THEN call'.port.str
            ELSE serverConfig.Port]_vars

\* no value of the mapping has a quote, a backslash or a brace
SafeValues(pathParams) ==
  \A name \in DOMAIN pathParams : \A i \in DOMAIN pathParams[name] :
    pathParams[name][i] \notin {QUOTE, "\\", "{", "}"}

\* C16 (as claimed): when the template of the route is valid JSON and the
\* values of the path parameters have no JSON-breaking character, the text
\* processMessageTemplate renders is valid JSON
RenderedStaysJSON ==
  \A f \in findMatchingRoute(req.path, req.method) :
    (RenderedHit(f) /\ ValidJSON(f.route.Message) /\ SafeValues(f.pathParams)) =>
      ValidJSON(RenderedText)

\* the callers between Lock and Unlock, and those between RLock and RUnlock
Registering == {t \in Writers : threads[t].pc \in {"locked", "writing", "written"}}
LookingUp == {t \in Readers : threads[t].pc \in {"rlocked", "found"}}

\* C15: at most one caller is between Lock and Unlock, and then none is
\* between RLock and RUnlock; a lookup that found a route found a route
\* exactly as a registration that has returned left it
RegistryLockDiscipline ==
  /\ Cardinality(Registering) <= 1
  /\ Registering # {} => LookingUp = {}
  /\ \A t \in Readers :
       (threads[t].pc \in {"found", "returned"} /\ threads[t].found.exists) =>
         threads[t].found.route \in finished

\* both lookups hold the read lock at once, one of them has found the route
\* of /hello/{name}, and a registration waits for the lock
RegistryLockDisciplineWitness ==
  /\ LookingUp = Readers
  /\ \E t \in Readers :
       /\ threads[t].pc = "found"
       /\ threads[t].found.exists
       /\ threads[t].found.route.Path = PathHelloName
  /\ \E t \in Writers : threads[t].pc = "compiled"

ShowsParams(f) ==
  /\ RenderedHit(f)
  /\ resp.body.kind = "ApiResponse"
  /\ resp.body.Data.kind = "debug"

\* the keys under which the headers of request r are filed
HeaderParams(r) == {HeaderParam(h) : h \in DOMAIN r.headers}

\* C21: the resolved parameters have every path parameter name and every
\* query parameter name of the request as a key; a name that is both holds
\* the query value, and every other one its own value (names under which a
\* header is filed aside)
QueryOverPath ==
  \A f \in findMatchingRoute(req.path, req.method) :
    ShowsParams(f) =>
      /\ DOMAIN PathParamsOf(f, req.path) \cup DOMAIN req.query
           \subseteq DOMAIN resp.body.Data.params
      /\ \A k \in DOMAIN req.query \ HeaderParams(req) :
           resp.body.Data.params[k] = req.query[k]
      /\ \A k \in DOMAIN PathParamsOf(f, req.path) \ (DOMAIN req.query \cup HeaderParams(req)) :
           resp.body.Data.params[k] = PathParamsOf(f, req.path)[k]

\* GET /hello/world?name=bob served by /hello/{name} with the debug flag on:
\* the resolved name is bob
QueryOverPathWitness ==
  /\ \E f \in findMatchingRoute(req.path, req.method) :
       ShowsParams(f) /\ PathParamsOf(f, req.path) = (Name :> <<"w", "o", "r", "l", "d">>)
  /\ req.query = QueryName
  /\ resp.body.Data.params[Name] = <<"b", "o", "b">>

\* C22 (as claimed): after the headers are merged every path parameter name
\* and every query parameter name is bound to its own path or query value,
\* whatever the names are
HeadersNeverCollide ==
  \A f \in findMatchingRoute(req.path, req.method) :
    ShowsParams(f) =>
      /\ \A k \in DOMAIN req.query : resp.body.Data.params[k] = req.query[k]
      /\ \A k \in DOMAIN PathParamsOf(f, req.path) \ DOMAIN req.query :
           resp.body.Data.params[k] = PathParamsOf(f, req.path)[k]

\* the JSON value val with old replaced by new in every string value, at
\* every depth
RECURSIVE DeepReplace(_, _, _)
DeepReplace(val, old, new) ==
  CASE val.k = "str" -> StrVal(ReplaceAll(val.v, old, new))
    [] val.k = "obj" -> ObjVal([key \in DOMAIN val.v |-> DeepReplace(val.v[key], old, new)])
    [] val.k = "arr" -> ArrVal([i \in DOMAIN val.v |-> DeepReplace(val.v[i], old, new)])
    [] OTHER -> val

\* the template with the one path parameter of the hit f substituted in
\* every string value
DeepRendered(f, path) ==
  Marshal(DeepReplace(ParseJSON(f.route.Message).val,
                      Placeholder(CHOOSE n \in DOMAIN PathParamsOf(f, path) : TRUE),
                      PathParamsOf(f, path)[CHOOSE n \in DOMAIN PathParamsOf(f, path) : TRUE]))

\* C23 (as claimed): for a template that is a JSON object the rendered text
\* is the template with the placeholder replaced in every string value:
\* in nested objects, in arrays, in objects that are array elements and in
\* arrays that are array elements
SubstitutionAtEveryDepth ==
  \A f \in findMatchingRoute(req.path, req.method) :
    (/\ RenderedHit(f)
     /\ PathParamsOf(f, req.path) # EmptyMap
     /\ ParseJSON(f.route.Message).ok
     /\ ParseJSON(f.route.Message).val.k = "obj") =>
      RenderedText = DeepRendered(f, req.path)

\* the request was answered from a route that the pattern scan returned
ScanAnswered(f) == Handled /\ resp.status = StatusOK /\ f.exists /\ f.scanned

\* C24 (as claimed): when the pattern scan returns a route, every extracted
\* value is non-empty and has no "/", and the request path has as many
\* components as the declared path
WholeComponentCaptured ==
  \A f \in findMatchingRoute(req.path, req.method) :
    ScanAnswered(f) =>
      /\ \A name \in DOMAIN f.pathParams :
           /\ f.pathParams[name] # <<>>
           /\ \A i \in DOMAIN f.pathParams[name] : f.pathParams[name][i] # "/"
      /\ Len(Components(req.path)) = Len(Components(f.route.Path))

\* path from position j on is declared from position i on with every
\* placeholder replaced by some non-empty text without "/" and every other
\* character kept
RECURSIVE LiteralFrom(_, _, _, _)
LiteralFrom(declared, i, path, j) ==
  IF i > Len(declared) THEN j > Len(path)
  ELSE IF PlaceholderEnd(declared, i) = 0
       THEN /\ j <= Len(path)
            /\ declared[i] = path[j]
            /\ LiteralFrom(declared, i + 1, path, j + 1)
       ELSE \E n \in 1..MaxRun(path, j) :
              LiteralFrom(declared, PlaceholderEnd(declared, i) + 1, path, j + n)

\* C30 (as claimed): the pattern scan returns a route only for a request
\* path that is the declared path, character for character, outside the
\* placeholders
LiteralPartsMatchedLiterally ==
  \A f \in findMatchingRoute(req.path, req.method) :
    ScanAnswered(f) => LiteralFrom(f.route.Path, 1, req.path, 1)

\* C29 (as claimed): a hit of findMatchingRoute for (path, method) is a
\* route of that method whose declared path is the request path or whose
\* pattern accepts it, in every registry the registrations can build
HitMatchesRequest ==
  \A path \in RegistryPaths, method \in {GET, ET} :
    \A f \in findMatchingRoute(path, method) :
      f.exists =>
        /\ f.route.Method = method
        /\ \/ f.route.Path = path
           \/ f.route.PathRegex # NilRegex /\ MatchString(f.route.PathRegex, path)

\* a documentation path: /openapi.json, or one that starts with /swagger
IsDocsPath(path) == path = OpenAPIPath \/ HasPrefix(path, SwaggerPrefix)

\* C26: a request for a documentation path is answered by the OpenAPI
\* document or by a file of the documentation UI and never by a rendered
\* route template, whatever routes are registered
DocsBypassRoutes ==
  (Handled /\ IsDocsPath(req.path)) =>
    /\ resp.body.kind = IF req.path = OpenAPIPath THEN "openapi" ELSE "file"
    /\ resp.body.kind \notin {"raw", "ApiResponse"}

\* GET /openapi.json and GET /swaggerx both registered as routes: the
\* request for /swaggerx is answered with a file
DocsBypassRoutesWitness ==
  /\ Handled
  /\ req.path = PathSwaggerish
  /\ RouteKey(PathSwaggerish, GET) \in DOMAIN routes
  /\ RouteKey(OpenAPIPath, GET) \in DOMAIN routes
  /\ resp.body.kind = "file"

\* C25: the stored timestamps of a client never number more than maxReqs,
\* and of the requests of a client that were passed on, any maxReqs + 1
\* span at least windowSize seconds
LimiterStepAtomic ==
  \A ip \in {"c1"} :
    /\ 1 \in DOMAIN limiters => Len(TimesOf(limiters[1], ip)) <= maxReqs
    /\ 1 \in DOMAIN passed =>
         \A i \in 1..(Len(TimesOf(passed[1], ip)) - maxReqs) :
           TimesOf(passed[1], ip)[i + maxReqs] - TimesOf(passed[1], ip)[i] >= windowSize

\* with maxReqs - 1 requests passed on, one goroutine holds the mutex and has
\* appended the last timestamp while the other waits for the mutex
LimiterStepAtomicWitness ==
  /\ 1 \in DOMAIN limiters
  /\ Len(TimesOf(limiters[1], "c1")) = maxReqs
  /\ Len(TimesOf(passed[1], "c1")) = maxReqs - 1
  /\ \E h \in Handlers : handlers[h].pc = "appended" /\ limiterMu = h
  /\ \E h \in Handlers : handlers[h].pc = "limiter"

\* C27: the debug flag is never being written by SetIncludeDebugData while a
\* request that is being served is about to read it with no lock held and no
\* atomic access
NoFlagRace ==
  ~(/\ setter.pc = "writing"
    /\ \E h \in Handlers : handlers[h].pc = "envelope")

\* the locks goroutine g holds
Held(g) ==
  {name \in RWMutexes : MuOf(name).writer = g \/ g \in MuOf(name).readers}
    \cup (IF limiterMu = g THEN {"mu"} ELSE {})

\* g is about to acquire a lock
Acquiring(g) ==
  /\ IsAt(g, "Lock") \/ IsAt(g, "RLock")
  /\ At(g).lock \in RWMutexes => g \notin MuOf(At(g).lock).woken

\* a goroutine that acquires a lock holds none, and one that has returned
\* holds none
OneLockAtATime ==
  \A g \in Goroutines :
    /\ Acquiring(g) => Held(g) = {}
    /\ ops[g] = IdleOp => Held(g) = {}
    /\ Cardinality(Held(g)) <= 1

\* C28: no call acquires a lock while it holds one, every call has released
\* its lock when it returns, and every call that has begun returns
LocksReleasedAndCallsReturn ==
  /\ []OneLockAtATime
  /\ \A g \in Goroutines : (ops[g] # IdleOp) ~> (ops[g] = IdleOp)

\* a registration has called Lock while a listing and a lookup hold the read
\* lock of routes
LocksReleasedAndCallsReturnWitness ==
  /\ routesMu.pending # "none"
  /\ Cardinality(routesMu.readers) = 2
  /\ \E g \in routesMu.readers : ops[g].op = "openapi"

\* C31: the hint of a 404 response lists only routes that were registered
\* when the lookup of its request was performed, and so never a route of the
\* request's own path and method
HintFromLookupState ==
  \A t \in Readers :
    threads[t].pc \in {"hinted", "answered"} =>
      /\ threads[t].listed \subseteq threads[t].seen
      /\ \A i \in DOMAIN threads[t].supportedMethods :
           threads[t].supportedMethods[i] # threads[t].method

\* C32: the handler of the running server is the chain built from the
\* middleware list as it was when StartServer was called, whatever is
\* registered afterwards: a request enters only wrappers of that list, and
\* each rate limiter of the chain keeps one state for all requests, holding
\* every request it has passed on
ChainBuiltAtStart ==
  server.started =>
    /\ server.handler = applyMiddleware(server.registered)
    /\ DOMAIN limiters = RateLimiterLayers(applyMiddleware(server.registered))
    /\ \A j \in DOMAIN trace :
         trace[j].ev \in {"enter", "exit"} => trace[j].layer \in DOMAIN server.registered
    /\ \A i \in DOMAIN limiters :
         \A ip \in DOMAIN passed[i] :
           Len(TimesOf(limiters[i], ip)) = Len(TimesOf(passed[i], ip))

\* the rate limiter was registered before StartServer and the CORS
\* middleware after it; the second request since then has passed the
\* limiter and reached the terminal handler, with no CORS header
ChainBuiltAtStartWitness ==
  /\ server.started
  /\ server.registered = <<"rate_limiter">>
  /\ middlewares = <<"rate_limiter", "cors">>
  /\ Handled /\ HandlerRan /\ ~resp.cors
  /\ Len(TimesOf(passed[1], "c1")) = 2

\* the parameters whose placeholder starts at position i of text
StartingAt(text, i, pathParams) ==
  {name \in DOMAIN pathParams : HasAt(text, i, Placeholder(name))}

\* text with every {key} replaced by its value in one pass from left to
\* right: what is inserted is not looked at again
RECURSIVE LiteralFromPos(_, _, _)
LiteralFromPos(text, i, pathParams) ==
  IF i > Len(text) THEN <<>>
  ELSE IF StartingAt(text, i, pathParams) = {}
       THEN <<text[i]>> \o LiteralFromPos(text, i + 1, pathParams)
       ELSE LET name == CHOOSE n \in StartingAt(text, i, pathParams) : TRUE
            IN pathParams[name]
                 \o LiteralFromPos(text, i + Len(Placeholder(name)), pathParams)

\* C33: the text rendered from a plain template is one text, whatever the
\* order in which the parameters are processed, and it is the template with
\* each placeholder replaced literally by its value, also when a value is
\* the placeholder of another parameter
RenderingIsAFunction ==
  \A f \in findMatchingRoute(req.path, req.method) :
    (Handled /\ f.exists /\ UnmarshalMap(f.route.Message).err) =>
      processMessageTemplate(f.route.Message, f.pathParams) =
        {LiteralFromPos(f.route.Message, 1, f.pathParams)}
====
